---- MODULE Spec2Model ----
(***************************************************************************)
(* A model of psiphon/common/authPackage.go: the authenticated data        *)
(* package writer and reader, the two-pass streaming verifier              *)
(* StreamingReadAuthenticatedDataPackage, the byte-at-a-time               *)
(* limitedJSONStreamer and its limitedJSONValueStreamer.                    *)
(*                                                                         *)
(* A byte is a one-character string; a byte string is a sequence of bytes. *)
(* Go's nil is the value NIL, which is no byte string: a nil slice and an  *)
(* empty, non-nil slice are different values, as they are for the          *)
(* "== nil" tests of the code.                                             *)
(***************************************************************************)
EXTENDS Integers, Sequences, FiniteSets, TLC

NIL == <<"nil">>
QUOTE == "\""
BSLASH == "\\"
LBRACE == "{"
RBRACE == "}"
COLON == ":"
COMMA == ","

(***************************************************************************)
(* Bounds of the model.                                                    *)
(***************************************************************************)
\* longest data payload a package is written for
MaxData == 2
\* longest buffer handed to limitedJSONValueStreamer.Read: the stand-in for
\* io.Copy's and ioutil.ReadAll's buffers, and the caller's
MaxBuf == 2
\* most bytes the byte source of a bare limitedJSONStreamer delivers
MaxLen == 8
\* the most connections a proxy accepts, the most notices of temporary
\* accept errors
MaxConns == 2
MaxAlerts == 1

(***************************************************************************)
(* Sequence helpers.                                                       *)
(***************************************************************************)
RECURSIVE SeqsUpTo(_, _)
SeqsUpTo(S, n) ==
    IF n = 0 THEN {<<>>}
    ELSE LET P == SeqsUpTo(S, n - 1)
         IN  P \cup {Append(p, x) : p \in {q \in P : Len(q) = n - 1}, x \in S}

RECURSIVE Flatten(_)
Flatten(ss) == IF ss = <<>> THEN <<>> ELSE Head(ss) \o Flatten(Tail(ss))

Range(s) == {s[i] : i \in 1..Len(s)}

RemoveAt(s, i) == SubSeq(s, 1, i - 1) \o SubSeq(s, i + 1, Len(s))

InsertAt(s, i, x) == SubSeq(s, 1, i) \o <<x>> \o SubSeq(s, i + 1, Len(s))

(***************************************************************************)
(* Digest and signature primitives, as perfect cryptography: a digest      *)
(* names the string digested, a signature names the signing key and the    *)
(* digest signed, and nothing else verifies.                               *)
(***************************************************************************)
sha256sum(data) == <<"H">> \o data

\* Key pairs "A" and "B". A public key string is the base64 of its DER, a
\* private key string likewise; BadKey is a string that is no key.
PubKeyA == <<"A">>
PubKeyB == <<"B">>
BadKey == <<"!">>
PrivKeyA == <<"a">>
PrivKeyB == <<"b">>

\* base64.StdEncoding.DecodeString followed by x509.ParsePKIXPublicKey and
\* the *rsa.PublicKey type assertion
ParsePublicKey(signingPublicKey) ==
    IF signingPublicKey \in {PubKeyA, PubKeyB}
    THEN [ok |-> TRUE, id |-> signingPublicKey[1]]
    ELSE [ok |-> FALSE, id |-> ""]

\* base64.StdEncoding.DecodeString followed by x509.ParsePKCS1PrivateKey
ParsePrivateKey(signingPrivateKey) ==
    CASE signingPrivateKey = PrivKeyA -> [ok |-> TRUE, id |-> "A"]
      [] signingPrivateKey = PrivKeyB -> [ok |-> TRUE, id |-> "B"]
      [] OTHER -> [ok |-> FALSE, id |-> ""]

SignPKCS1v15(id, digest) == <<"S", id>> \o digest

VerifyPKCS1v15(id, digest, sig) == sig # NIL /\ sig = <<"S", id>> \o digest

(***************************************************************************)
(* Base64 (standard alphabet). Each byte is written as the first two       *)
(* characters of its base64 form; a string that is not a sequence of such  *)
(* pairs does not decode.                                                  *)
(***************************************************************************)
B64Table ==
    [b \in {"H", "S", "A", "B", "!", "a", QUOTE, BSLASH} |->
        CASE b = "H" -> <<"S", "A">>
          [] b = "S" -> <<"U", "w">>
          [] b = "A" -> <<"Q", "Q">>
          [] b = "B" -> <<"Q", "g">>
          [] b = "!" -> <<"I", "Q">>
          [] b = "a" -> <<"Y", "Q">>
          [] b = QUOTE -> <<"I", "g">>
          [] b = BSLASH -> <<"X", "A">>]

EncodeToString(bytes) == Flatten([i \in 1..Len(bytes) |-> B64Table[bytes[i]]])

RECURSIVE DecodeString(_)
DecodeString(s) ==
    IF s = <<>> THEN [ok |-> TRUE, val |-> <<>>]
    ELSE IF Len(s) < 2 THEN [ok |-> FALSE, val |-> NIL]
    ELSE LET pair == SubSeq(s, 1, 2)
             hits == {b \in DOMAIN B64Table : B64Table[b] = pair}
             rest == DecodeString(SubSeq(s, 3, Len(s)))
         IN  IF hits = {} \/ ~rest.ok THEN [ok |-> FALSE, val |-> NIL]
             ELSE [ok |-> TRUE, val |-> <<CHOOSE b \in hits : TRUE>> \o rest.val]

(***************************************************************************)
(* The envelope's JSON. AuthenticatedDataPackage has the members data (a   *)
(* string), signingPublicKeyDigest and signature (byte slices, base64 in   *)
(* JSON).                                                                  *)
(***************************************************************************)
KeyData == <<"d", "a", "t", "a">>
KeySigningPublicKeyDigest ==
    <<"s", "i", "g", "n", "i", "n", "g", "P", "u", "b", "l", "i", "c", "K", "e", "y",
      "D", "i", "g", "e", "s", "t">>
KeySignature == <<"s", "i", "g", "n", "a", "t", "u", "r", "e">>

\* the bytes a data payload is made of: a plain character and the two
\* characters the JSON encoder writes as escapes
DataAlphabet == {"a", QUOTE, BSLASH}

\* a faulty encoding of one byte: the backslash is written as it stands
EscapeByteQuoteOnly(b) ==
    IF b = QUOTE THEN <<BSLASH, b>> ELSE <<b>>

\* json.Marshal's string encoding of one byte
EscapeByte(b) ==
    IF b = QUOTE \/ b = BSLASH THEN <<BSLASH, b>> ELSE <<b>>

EncodeJSONString(s) == Flatten([i \in 1..Len(s) |-> EscapeByte(s[i])])

\* one member, "key":"raw", raw being the bytes between the value's quotes
MemberBytes(key, raw) == <<QUOTE>> \o key \o <<QUOTE, COLON, QUOTE>> \o raw \o <<QUOTE>>

\* json.Marshal(&AuthenticatedDataPackage{...}): the members in the order of
\* the struct's fields, no whitespace
Marshal(data, digest, signature) ==
    <<LBRACE>>
    \o MemberBytes(KeyData, EncodeJSONString(data)) \o <<COMMA>>
    \o MemberBytes(KeySigningPublicKeyDigest, EncodeToString(digest)) \o <<COMMA>>
    \o MemberBytes(KeySignature, EncodeToString(signature))
    \o <<RBRACE>>

isWhitespaceNoCR(b) == b = " " \/ b = "\t" \/ b = "\n"

isWhitespace(b) == b = " " \/ b = "\t" \/ b = "\r" \/ b = "\n"

\* the character an escape sequence \c stands for in a JSON string ("": none)
Unescape(c) ==
    CASE c = QUOTE -> QUOTE
      [] c = BSLASH -> BSLASH
      [] c = "/" -> "/"
      [] OTHER -> ""

EmptyPackage == [data |-> <<>>, digest |-> NIL, signature |-> NIL]

\* json.Unmarshal's assignment of one decoded member to the struct: a member
\* that is no field of the struct is skipped, a later member replaces an
\* earlier one, and a byte-slice field takes the base64 decoding of its string
AssignMember(obj, key, val) ==
    CASE key = KeyData -> [ok |-> TRUE, obj |-> [obj EXCEPT !.data = val]]
      [] key = KeySigningPublicKeyDigest ->
            LET d == DecodeString(val)
            IN  [ok |-> d.ok, obj |-> [obj EXCEPT !.digest = d.val]]
      [] key = KeySignature ->
            LET d == DecodeString(val)
            IN  [ok |-> d.ok, obj |-> [obj EXCEPT !.signature = d.val]]
      [] OTHER -> [ok |-> TRUE, obj |-> obj]

\* the first place at or after i that holds no whitespace (Len(s) + 1: none)
SkipWhitespace(s, i) ==
    LET stops == {j \in i..(Len(s) + 1) : j = Len(s) + 1 \/ ~isWhitespace(s[j])}
    IN  CHOOSE j \in stops : \A k \in stops : j <= k

\* the backslashes that end at place j - 1 of s, none before place low
BackslashRun(s, low, j) ==
    LET starts == {k \in low..j : \A m \in k..(j - 1) : s[m] = BSLASH}
    IN  j - (CHOOSE k \in starts : \A m \in starts : k <= m)

\* the bytes a JSON string's body stands for
RECURSIVE UnescapeAll(_)
UnescapeAll(body) ==
    IF body = <<>> THEN [ok |-> TRUE, val |-> <<>>]
    ELSE IF Head(body) # BSLASH
    THEN LET rest == UnescapeAll(Tail(body))
         IN  [ok |-> rest.ok, val |-> <<Head(body)>> \o rest.val]
    ELSE IF Len(body) < 2 \/ Unescape(body[2]) = "" THEN [ok |-> FALSE, val |-> <<>>]
    ELSE LET rest == UnescapeAll(SubSeq(body, 3, Len(body)))
         IN  [ok |-> rest.ok, val |-> <<Unescape(body[2])>> \o rest.val]

\* the JSON string that opens at place i of s: it closes at the first quote
\* that an even number of backslashes precedes
ParseString(s, i) ==
    LET closes == {j \in (i + 1)..Len(s) :
                     s[j] = QUOTE /\ BackslashRun(s, i + 1, j) % 2 = 0}
        j == CHOOSE c \in closes : \A k \in closes : c <= k
        body == UnescapeAll(SubSeq(s, i + 1, j - 1))
    IN  IF closes = {} THEN [ok |-> FALSE, val |-> <<>>, next |-> i]
        ELSE [ok |-> body.ok, val |-> body.val, next |-> j + 1]

\* json.Unmarshal of the members of an object whose values are strings, from
\* place i on; first: no member has been read, so the object may end here
RECURSIVE ParseMembers(_, _, _, _)
ParseMembers(s, i, obj, first) ==
    LET fail == [ok |-> FALSE, obj |-> EmptyPackage, next |-> i]
        at(j) == IF j <= Len(s) THEN s[j] ELSE ""
        i0 == SkipWhitespace(s, i)
        key == ParseString(s, i0)
        i1 == SkipWhitespace(s, key.next)
        i2 == SkipWhitespace(s, i1 + 1)
        val == ParseString(s, i2)
        a == AssignMember(obj, key.val, val.val)
        i3 == SkipWhitespace(s, val.next)
    IN  IF first /\ at(i0) = RBRACE THEN [ok |-> TRUE, obj |-> obj, next |-> i0 + 1]
        ELSE IF at(i0) # QUOTE \/ ~key.ok THEN fail
        ELSE IF at(i1) # COLON THEN fail
        ELSE IF at(i2) # QUOTE \/ ~val.ok THEN fail
        ELSE IF ~a.ok THEN fail
        ELSE IF at(i3) = COMMA THEN ParseMembers(s, i3 + 1, a.obj, FALSE)
        ELSE IF at(i3) = RBRACE THEN [ok |-> TRUE, obj |-> a.obj, next |-> i3 + 1]
        ELSE fail

\* json.Unmarshal(packageJSON, &authenticatedDataPackage), for an object
\* whose values are strings: whitespace around every token, the escapes of
\* the strings decoded, nothing but whitespace after the object
Unmarshal(packageJSON) ==
    LET i0 == SkipWhitespace(packageJSON, 1)
        ms == ParseMembers(packageJSON, i0 + 1, EmptyPackage, TRUE)
    IN  IF i0 > Len(packageJSON) \/ packageJSON[i0] # LBRACE THEN [ok |-> FALSE, obj |-> EmptyPackage]
        ELSE IF ~ms.ok THEN [ok |-> FALSE, obj |-> EmptyPackage]
        ELSE IF SkipWhitespace(packageJSON, ms.next) <= Len(packageJSON)
        THEN [ok |-> FALSE, obj |-> EmptyPackage]
        ELSE [ok |-> TRUE, obj |-> ms.obj]

(***************************************************************************)
(* The compression codec: a compressed package is a zlib header followed   *)
(* by the stream; bytes that do not start with the header do not           *)
(* decompress.                                                             *)
(***************************************************************************)
ZlibHeader == "Z"

Compress(data) == <<ZlibHeader>> \o data

Decompress(compressed) ==
    IF compressed # <<>> /\ Head(compressed) = ZlibHeader
    THEN [ok |-> TRUE, out |-> Tail(compressed)]
    ELSE [ok |-> FALSE, out |-> <<>>]

(***************************************************************************)
(* The in-memory writer and reader.                                        *)
(***************************************************************************)
WriteAuthenticatedDataPackage(data, signingPublicKey, signingPrivateKey) ==
    LET rsaPrivateKey == ParsePrivateKey(signingPrivateKey)
    IN  IF ~rsaPrivateKey.ok THEN [err |-> "InvalidKey", pkg |-> NIL]
        ELSE LET signature == SignPKCS1v15(rsaPrivateKey.id, sha256sum(data))
                 packageJSON == Marshal(data, sha256sum(signingPublicKey), signature)
             IN  [err |-> "none", pkg |-> Compress(packageJSON)]

ReadAuthenticatedDataPackage(compressedPackage, signingPublicKey) ==
    LET packageJSON == Decompress(compressedPackage)
        pkg == Unmarshal(packageJSON.out)
        rsaPublicKey == ParsePublicKey(signingPublicKey)
        fail(e) == [err |-> e, data |-> <<>>]
    IN  IF ~packageJSON.ok THEN fail("Decompress")
        ELSE IF ~pkg.ok THEN fail("Unmarshal")
        ELSE IF ~rsaPublicKey.ok THEN fail("InvalidKey")
        ELSE IF pkg.obj.digest # sha256sum(signingPublicKey) THEN fail("KeyMismatch")
        ELSE IF ~VerifyPKCS1v15(rsaPublicKey.id, sha256sum(pkg.obj.data),
                                pkg.obj.signature)
        THEN fail("SignatureInvalid")
        ELSE [err |-> "none", data |-> pkg.obj.data]

(***************************************************************************)
(* limitedJSONStreamer's states (the iota block).                          *)
(***************************************************************************)
stateJSONSeekingObjectStart == 0
stateJSONSeekingKeyStart == 1
stateJSONSeekingKeyEnd == 2
stateJSONSeekingColon == 3
stateJSONSeekingStringValueStart == 4
stateJSONSeekingStringValueEnd == 5
stateJSONSeekingNextPair == 6
stateJSONObjectEnd == 7

(***************************************************************************)
(* The state.                                                              *)
(*                                                                         *)
(* Inputs, fixed for a run:                                                *)
(*   mode              "package": StreamingReadAuthenticatedDataPackage    *)
(*                     and the in-memory writer and reader;                *)
(*                     "bare": a limitedJSONStreamer alone, whose handler  *)
(*                     drains every value and continues, or stops reading  *)
(*                     and halts, or fails                                 *)
(*   written           what WriteAuthenticatedDataPackage is called with   *)
(*                     (data NIL: the file is not written by it)           *)
(*   signingPublicKey  the key the readers are called with                 *)
(* The file system:                                                        *)
(*   file              the package file's bytes (NIL: no such file)        *)
(*   fileOpen          the os.File of StreamingRead... is open             *)
(* ReadAuthenticatedDataPackage:                                           *)
(*   memResult         what it returned (err "notcalled": not called yet)  *)
(* StreamingReadAuthenticatedDataPackage's frame:                          *)
(*   pc, pass, closeOnError, payload, err                                  *)
(*   hash              the bytes written to each pass's SHA-256 context    *)
(*   jsonData, jsonSigningPublicKey, jsonSignature                         *)
(*   acc               ioutil.ReadAll's buffer                             *)
(* The byte source the streamer reads (the zlib decompressor):             *)
(*   reader            [src, pos, ended, lazy, closed]: its bytes, how     *)
(*                     many were consumed, whether it has reported EOF,    *)
(*                     whether its bytes are decided as they are read, and *)
(*                     whether its Close has been called (no statement of  *)
(*                     the code calls it)                                  *)
(* limitedJSONStreamer.Stream's frame:                                     *)
(*   streamer          [state, keyBuffer, n, readErr, continueStreaming,   *)
(*                     at, ret]; n is the count the loop's last Read       *)
(*                     returned; at is "loop" (about to read), "handler"   *)
(*                     (inside the handler) or "done"; ret is what Stream  *)
(*                     returned ("running": nothing yet)                   *)
(*   calls             the handler's invocations: <<key, bytes read>>      *)
(* limitedJSONValueStreamer and its Read's frame:                          *)
(*   valueStreamer     [eof, mutex, len, i, p, ret]: len is len(p) of the  *)
(*                     call in progress (0: none), ret its result          *)
(* The caller of StreamingRead...:                                         *)
(*   out, outErr       the bytes read from the payload, the error that     *)
(*                     ended the reading ("nil": none yet)                 *)
(* A caller that runs Stream on one input and then on another:             *)
(*   earlier           what the earlier call was given and what it did:    *)
(*                     <<[src, ret, calls]>> (empty: no earlier call)      *)
(* The SOCKS or HTTP proxy:                                                *)
(*   proxy             [listener, serve, serveWaitGroup, close, conns,     *)
(*                     openConns, alerts, failures, err]: the listener is  *)
(*                     open or closed; serve and close are the positions   *)
(*                     of serve's goroutine and of Close; conns are the    *)
(*                     accepted connections, each with its handler's       *)
(*                     position and whether it is open; openConns are the  *)
(*                     tracked ones; alerts counts the notices of          *)
(*                     temporary accept errors, failures the calls of      *)
(*                     SignalFailure; err is serve's last accept error     *)
(* Goroutines that call Read on one limitedJSONValueStreamer:              *)
(*   goroutines        for each, the frame of its Read [len, i, p, ret]    *)
(*                     (len 0: no call in progress), whether it has        *)
(*                     stopped calling, and which entry of locked is its   *)
(*                     call's                                              *)
(*   locked            the calls in the order in which they took the       *)
(*                     mutex: who called, and the bytes and the error      *)
(*                     returned ("running": not yet)                       *)
(***************************************************************************)
VARIABLES mode, written, signingPublicKey, file, fileOpen, memResult,
          pc, pass, closeOnError, payload, err,
          hash, jsonData, jsonSigningPublicKey, jsonSignature, acc,
          reader, streamer, calls, valueStreamer, out, outErr,
          earlier, proxy, goroutines, locked

inVars == <<mode, written, signingPublicKey>>
otherVars == <<earlier, proxy, goroutines, locked>>
vars_but_proxy ==
    <<mode, written, signingPublicKey, file, fileOpen, memResult,
      pc, pass, closeOnError, payload, err,
      hash, jsonData, jsonSigningPublicKey, jsonSignature, acc,
      reader, streamer, calls, valueStreamer, out, outErr, earlier, goroutines, locked>>
pkgVars == <<pc, pass, closeOnError, payload, err, fileOpen>>
handlerVars == <<hash, jsonData, jsonSigningPublicKey, jsonSignature, acc>>
callerVars == <<out, outErr>>
vars == <<mode, written, signingPublicKey, file, fileOpen, memResult,
          pc, pass, closeOnError, payload, err,
          hash, jsonData, jsonSigningPublicKey, jsonSignature, acc,
          reader, streamer, calls, valueStreamer, out, outErr,
          earlier, proxy, goroutines, locked>>

\* the goroutines that call Read on one value streamer
GoIds == {"g1", "g2"}

\* no SOCKS proxy
NoProxy ==
    [listener |-> "none", serve |-> "none", serveWaitGroup |-> 0, close |-> "none",
     conns |-> <<>>, openConns |-> {}, alerts |-> 0, failures |-> 0, err |-> "nil"]

NoReader == [src |-> <<>>, pos |-> 0, ended |-> FALSE, lazy |-> FALSE, closed |-> FALSE]
NewStreamer ==
    [state |-> stateJSONSeekingObjectStart, keyBuffer |-> <<>>, n |-> 0, readErr |-> "nil",
     continueStreaming |-> TRUE, at |-> "loop", ret |-> "running"]
NoStreamer == [NewStreamer EXCEPT !.at = "idle"]
\* no Read has returned a result that is still to be taken
NoResult == [n |-> 0, err |-> "none"]
NewValueStreamer ==
    [eof |-> FALSE, mutex |-> FALSE, len |-> 0, i |-> 0, p |-> <<>>, ret |-> NoResult]
\* a goroutine that has not called Read
NoCall == [len |-> 0, i |-> 0, p |-> <<>>, ret |-> NoResult, stopped |-> FALSE, entry |-> 0]
NoGoroutines == [g \in GoIds |-> NoCall]
NoHash == [q \in {0, 1} |-> <<>>]

(***************************************************************************)
(* The byte source: one Read of a one-byte buffer.                         *)
(***************************************************************************)
\* the bytes the source of a bare streamer is made of
Alphabet == {LBRACE, RBRACE, QUOTE, COLON, COMMA, " ", "a", BSLASH}

\* What a Read of one byte may return, with the source after it: [n, b, err,
\* reader]. A source may deliver its last byte together with io.EOF, or
\* report io.EOF on the Read after it; a Read may fail ("IO"). A lazy source
\* decides its next byte at the Read, and ends after at most MaxLen bytes;
\* the others hold their bytes from the start.
SourceReads ==
    LET ended == [reader EXCEPT !.ended = TRUE]
        atEOF == {[n |-> 0, b |-> "", err |-> "EOF", reader |-> ended]}
        failed == {[n |-> 0, b |-> "", err |-> "IO", reader |-> reader]}
        took == [reader EXCEPT !.pos = @ + 1]
    IN  IF reader.ended THEN atEOF
        ELSE IF ~reader.lazy
        THEN IF reader.pos = Len(reader.src) THEN atEOF \cup failed
             ELSE {[n |-> 1, b |-> reader.src[reader.pos + 1], err |-> e,
                    reader |-> [took EXCEPT !.ended = (e = "EOF")]] :
                      e \in IF reader.pos + 1 = Len(reader.src)
                            THEN {"nil", "EOF"} ELSE {"nil"}}
                  \cup failed
        ELSE IF Len(reader.src) >= MaxLen THEN atEOF \cup failed
             ELSE {[n |-> 1, b |-> b, err |-> e,
                    reader |-> [took EXCEPT !.src = Append(@, b),
                                             !.ended = (e = "EOF")]] :
                      b \in Alphabet, e \in {"nil", "EOF"}}
                  \cup atEOF \cup failed

(***************************************************************************)
(* limitedJSONStreamer.Stream: the switch on the state for one byte. do is *)
(* "next" (go on to the readErr test), "call" (the value starts: invoke    *)
(* the handler) or the error returned.                                     *)
(***************************************************************************)
\* a faulty switch: a closing brace is taken where a key is sought, so the
\* object may be empty or end with a comma
StreamByteLenient(state, keyBuffer, b) ==
    LET go(st) == [state |-> st, keyBuffer |-> keyBuffer, do |-> "next"]
        stay == go(state)
        fail(e) == [state |-> state, keyBuffer |-> keyBuffer, do |-> e]
    IN
    CASE state = stateJSONSeekingObjectStart ->
            IF b = LBRACE THEN go(stateJSONSeekingKeyStart)
            ELSE IF ~isWhitespace(b) THEN fail("UnexpectedCharacter") ELSE stay
      [] state = stateJSONSeekingKeyStart ->
            IF b = QUOTE
            THEN [state |-> stateJSONSeekingKeyEnd, keyBuffer |-> <<>>, do |-> "next"]
            ELSE IF b = RBRACE THEN go(stateJSONObjectEnd)
            ELSE IF ~isWhitespace(b) THEN fail("UnexpectedCharacter") ELSE stay
      [] state = stateJSONSeekingKeyEnd ->
            IF b = BSLASH THEN fail("UnsupportedEscape")
            ELSE IF b = QUOTE THEN go(stateJSONSeekingColon)
            ELSE [state |-> state, keyBuffer |-> Append(keyBuffer, b), do |-> "next"]
      [] state = stateJSONSeekingColon ->
            IF b = COLON THEN go(stateJSONSeekingStringValueStart)
            ELSE IF ~isWhitespace(b) THEN fail("UnexpectedCharacter") ELSE stay
      [] state = stateJSONSeekingStringValueStart ->
            IF b = QUOTE
            THEN [state |-> stateJSONSeekingStringValueEnd, keyBuffer |-> keyBuffer,
                  do |-> "call"]
            ELSE IF ~isWhitespace(b) THEN fail("UnexpectedCharacter") ELSE stay
      [] state = stateJSONSeekingNextPair ->
            IF b = COMMA THEN go(stateJSONSeekingKeyStart)
            ELSE IF b = RBRACE THEN go(stateJSONObjectEnd)
            ELSE IF ~isWhitespace(b) THEN fail("UnexpectedCharacter") ELSE stay
      [] state = stateJSONObjectEnd ->
            IF ~isWhitespace(b) THEN fail("UnexpectedCharacter") ELSE stay
      [] OTHER -> fail("UnexpectedState")

StreamByteKeepsKey(state, keyBuffer, b) ==
    LET go(st) == [state |-> st, keyBuffer |-> keyBuffer, do |-> "next"]
        stay == go(state)
        fail(e) == [state |-> state, keyBuffer |-> keyBuffer, do |-> e]
    IN
    CASE state = stateJSONSeekingObjectStart ->
            IF b = LBRACE THEN go(stateJSONSeekingKeyStart)
            ELSE IF ~isWhitespace(b) THEN fail("UnexpectedCharacter") ELSE stay
      [] state = stateJSONSeekingKeyStart ->
            IF b = QUOTE
            THEN [state |-> stateJSONSeekingKeyEnd, keyBuffer |-> keyBuffer, do |-> "next"]
            ELSE IF ~isWhitespace(b) THEN fail("UnexpectedCharacter") ELSE stay
      [] state = stateJSONSeekingKeyEnd ->
            IF b = BSLASH THEN fail("UnsupportedEscape")
            ELSE IF b = QUOTE THEN go(stateJSONSeekingColon)
            ELSE [state |-> state, keyBuffer |-> Append(keyBuffer, b), do |-> "next"]
      [] state = stateJSONSeekingColon ->
            IF b = COLON THEN go(stateJSONSeekingStringValueStart)
            ELSE IF ~isWhitespace(b) THEN fail("UnexpectedCharacter") ELSE stay
      [] state = stateJSONSeekingStringValueStart ->
            IF b = QUOTE
            THEN [state |-> stateJSONSeekingStringValueEnd, keyBuffer |-> keyBuffer,
                  do |-> "call"]
            ELSE IF ~isWhitespace(b) THEN fail("UnexpectedCharacter") ELSE stay
      [] state = stateJSONSeekingNextPair ->
            IF b = COMMA THEN go(stateJSONSeekingKeyStart)
            ELSE IF b = RBRACE THEN go(stateJSONObjectEnd)
            ELSE IF ~isWhitespace(b) THEN fail("UnexpectedCharacter") ELSE stay
      [] state = stateJSONObjectEnd ->
            IF ~isWhitespace(b) THEN fail("UnexpectedCharacter") ELSE stay
      [] OTHER -> fail("UnexpectedState")

StreamByteCallsAtColon(state, keyBuffer, b) ==
    LET go(st) == [state |-> st, keyBuffer |-> keyBuffer, do |-> "next"]
        stay == go(state)
        fail(e) == [state |-> state, keyBuffer |-> keyBuffer, do |-> e]
    IN
    CASE state = stateJSONSeekingObjectStart ->
            IF b = LBRACE THEN go(stateJSONSeekingKeyStart)
            ELSE IF ~isWhitespace(b) THEN fail("UnexpectedCharacter") ELSE stay
      [] state = stateJSONSeekingKeyStart ->
            IF b = QUOTE
            THEN [state |-> stateJSONSeekingKeyEnd, keyBuffer |-> <<>>, do |-> "next"]
            ELSE IF ~isWhitespace(b) THEN fail("UnexpectedCharacter") ELSE stay
      [] state = stateJSONSeekingKeyEnd ->
            IF b = BSLASH THEN fail("UnsupportedEscape")
            ELSE IF b = QUOTE THEN go(stateJSONSeekingColon)
            ELSE [state |-> state, keyBuffer |-> Append(keyBuffer, b), do |-> "next"]
      [] state = stateJSONSeekingColon ->
            IF b = COLON
            THEN [state |-> stateJSONSeekingStringValueEnd, keyBuffer |-> keyBuffer,
                  do |-> "call"]
            ELSE IF ~isWhitespace(b) THEN fail("UnexpectedCharacter") ELSE stay
      [] state = stateJSONSeekingStringValueStart ->
            IF b = QUOTE
            THEN [state |-> stateJSONSeekingStringValueEnd, keyBuffer |-> keyBuffer,
                  do |-> "call"]
            ELSE IF ~isWhitespace(b) THEN fail("UnexpectedCharacter") ELSE stay
      [] state = stateJSONSeekingNextPair ->
            IF b = COMMA THEN go(stateJSONSeekingKeyStart)
            ELSE IF b = RBRACE THEN go(stateJSONObjectEnd)
            ELSE IF ~isWhitespace(b) THEN fail("UnexpectedCharacter") ELSE stay
      [] state = stateJSONObjectEnd ->
            IF ~isWhitespace(b) THEN fail("UnexpectedCharacter") ELSE stay
      [] OTHER -> fail("UnexpectedState")

StreamByte(state, keyBuffer, b) ==
    LET go(st) == [state |-> st, keyBuffer |-> keyBuffer, do |-> "next"]
        stay == go(state)
        fail(e) == [state |-> state, keyBuffer |-> keyBuffer, do |-> e]
    IN
    CASE state = stateJSONSeekingObjectStart ->
            IF b = LBRACE THEN go(stateJSONSeekingKeyStart)
            ELSE IF ~isWhitespace(b) THEN fail("UnexpectedCharacter") ELSE stay
      [] state = stateJSONSeekingKeyStart ->
            IF b = QUOTE
            THEN [state |-> stateJSONSeekingKeyEnd, keyBuffer |-> <<>>, do |-> "next"]
            ELSE IF ~isWhitespace(b) THEN fail("UnexpectedCharacter") ELSE stay
      [] state = stateJSONSeekingKeyEnd ->
            IF b = BSLASH THEN fail("UnsupportedEscape")
            ELSE IF b = QUOTE THEN go(stateJSONSeekingColon)
            ELSE [state |-> state, keyBuffer |-> Append(keyBuffer, b), do |-> "next"]
      [] state = stateJSONSeekingColon ->
            IF b = COLON THEN go(stateJSONSeekingStringValueStart)
            ELSE IF ~isWhitespace(b) THEN fail("UnexpectedCharacter") ELSE stay
      [] state = stateJSONSeekingStringValueStart ->
            IF b = QUOTE
            THEN [state |-> stateJSONSeekingStringValueEnd, keyBuffer |-> keyBuffer,
                  do |-> "call"]
            ELSE IF ~isWhitespace(b) THEN fail("UnexpectedCharacter") ELSE stay
      [] state = stateJSONSeekingNextPair ->
            IF b = COMMA THEN go(stateJSONSeekingKeyStart)
            ELSE IF b = RBRACE THEN go(stateJSONObjectEnd)
            ELSE IF ~isWhitespace(b) THEN fail("UnexpectedCharacter") ELSE stay
      [] state = stateJSONObjectEnd ->
            IF ~isWhitespace(b) THEN fail("UnexpectedCharacter") ELSE stay
      [] OTHER -> fail("UnexpectedState")

AfterReadEOFIsSuccess(state, readErr) ==
    IF readErr = "nil" THEN "next"
    ELSE IF readErr = "EOF" THEN "nil"
    ELSE readErr

\* the test of readErr that ends an iteration of Stream's loop: "next" (read
\* on), "nil" (Stream returns nil) or the error returned
AfterRead(state, readErr) ==
    IF readErr = "nil" THEN "next"
    ELSE IF readErr = "EOF"
    THEN IF state # stateJSONObjectEnd THEN "UnexpectedEOF" ELSE "nil"
    ELSE readErr

(***************************************************************************)
(* How a function of the model returns.                                    *)
(***************************************************************************)
CurHandler ==
    [hash |-> hash, jsonData |-> jsonData, jsonSigningPublicKey |-> jsonSigningPublicKey,
     jsonSignature |-> jsonSignature, acc |-> acc]

SetHandler(h) ==
    /\ hash' = h.hash
    /\ jsonData' = h.jsonData
    /\ jsonSigningPublicKey' = h.jsonSigningPublicKey
    /\ jsonSignature' = h.jsonSignature
    /\ acc' = h.acc

NoHandler ==
    [hash |-> NoHash, jsonData |-> NIL, jsonSigningPublicKey |-> NIL,
     jsonSignature |-> NIL, acc |-> <<>>]

\* a faulty deferred function: it closes nothing
DeferredCloseNothing == fileOpen

\* the deferred function of StreamingReadAuthenticatedDataPackage: whether
\* the file is open once it has run
DeferredClose == IF closeOnError # NIL THEN FALSE ELSE fileOpen

\* StreamingReadAuthenticatedDataPackage returns (nil, e): its frame, and
\* those of the functions it called, are gone
ReturnError(e) ==
    /\ pc' = "done"
    /\ err' = e
    /\ payload' = NIL
    /\ fileOpen' = DeferredClose
    /\ reader' = NoReader
    /\ streamer' = NoStreamer
    /\ valueStreamer' = NewValueStreamer
    /\ SetHandler(NoHandler)
    /\ UNCHANGED <<pass, closeOnError, file, memResult, inVars, otherVars, callerVars>>

\* Stream's frame moves on to st with the source rd, the value streamer vs
\* and the handler's variables h; when st.at is "done", Stream has returned
\* st.ret to its caller, which in StreamingRead... returns its errors at once
StreamMoves(rd, st, vs, h) ==
    IF mode = "package" /\ st.at = "done" /\ st.ret # "nil"
    THEN ReturnError(st.ret)
    ELSE /\ reader' = rd
         /\ streamer' = st
         /\ valueStreamer' = vs
         /\ SetHandler(h)
         /\ pc' = IF mode = "package" /\ st.at = "done"
                  THEN (IF pass = 0 THEN "verify" ELSE "expose")
                  ELSE pc
         /\ UNCHANGED <<pass, closeOnError, payload, err, fileOpen, file, memResult,
                        inVars, otherVars, callerVars>>

(***************************************************************************)
(* The handlers. In StreamingReadAuthenticatedDataPackage the handler is   *)
(* jsonHandler; a bare streamer's handler reads the value with buffers of  *)
(* its choice and returns continue=true at the value's end, unless it      *)
(* halts or fails before.                                                  *)
(***************************************************************************)
\* a faulty handler: the value of a key it does not know is read and dropped
jsonHandlerSkipsUnknown(key) ==
    LET h == [CurHandler EXCEPT !.acc = <<>>]
    IN  IF key = KeyData /\ pass = 1
        THEN [run |-> FALSE, cont |-> FALSE, err |-> "nil",
              h |-> [h EXCEPT !.jsonData = <<"value">>]]
        ELSE [run |-> TRUE, cont |-> TRUE, err |-> "nil", h |-> h]

jsonHandlerDigestFirst(key) ==
    LET h == [CurHandler EXCEPT !.acc = <<>>]
    IN
    CASE key = KeyData ->
            IF pass = 0
            THEN [run |-> TRUE, cont |-> TRUE, err |-> "nil", h |-> h]
            ELSE [run |-> FALSE, cont |-> FALSE, err |-> "nil",
                  h |-> [h EXCEPT !.jsonData = <<"value">>]]
      [] key = KeySigningPublicKeyDigest \/ (key = KeySignature /\ h.jsonSigningPublicKey # NIL) ->
            [run |-> TRUE, cont |-> TRUE, err |-> "nil", h |-> h]
      [] OTHER ->
            [run |-> FALSE, cont |-> FALSE, err |-> "UnexpectedKey", h |-> h]

\* jsonHandler's switch on the key, up to its first Read of the value: run
\* (it reads the value: io.Copy or ioutil.ReadAll) or its return values
jsonHandler(key) ==
    LET h == [CurHandler EXCEPT !.acc = <<>>]
    IN
    CASE key = KeyData ->
            IF pass = 0
            THEN [run |-> TRUE, cont |-> TRUE, err |-> "nil", h |-> h]
            ELSE [run |-> FALSE, cont |-> FALSE, err |-> "nil",
                  h |-> [h EXCEPT !.jsonData = <<"value">>]]
      [] key = KeySigningPublicKeyDigest \/ key = KeySignature ->
            [run |-> TRUE, cont |-> TRUE, err |-> "nil", h |-> h]
      [] OTHER ->
            [run |-> FALSE, cont |-> FALSE, err |-> "UnexpectedKey", h |-> h]

HandlerEntry(key) ==
    IF mode = "package" THEN jsonHandler(key)
    ELSE [run |-> TRUE, cont |-> TRUE, err |-> "nil",
          h |-> [CurHandler EXCEPT !.acc = <<>>]]

\* jsonReadBase64Value, once ioutil.ReadAll has the whole value
jsonReadBase64Value(base64Value) == DecodeString(base64Value)

\* The handler has a Read's result: got are the bytes returned, e the error.
\* io.Copy writes the bytes to the hash and ioutil.ReadAll appends them to
\* its buffer, both before they look at the error; io.EOF ends the value.
HandlerStep(key, got, e) ==
    LET h == IF mode = "package" /\ key = KeyData
             THEN [CurHandler EXCEPT !.hash[pass] = @ \o got]
             ELSE [CurHandler EXCEPT !.acc = @ \o got]
        decoded == jsonReadBase64Value(h.acc)
    IN
    IF e = "nil" THEN [run |-> TRUE, cont |-> TRUE, err |-> "nil", h |-> h]
    ELSE IF e # "EOF" THEN [run |-> FALSE, cont |-> FALSE, err |-> e, h |-> h]
    ELSE IF mode # "package" \/ key = KeyData
    THEN [run |-> FALSE, cont |-> TRUE, err |-> "nil", h |-> h]
    ELSE IF ~decoded.ok
    THEN [run |-> FALSE, cont |-> FALSE, err |-> "Base64", h |-> h]
    ELSE IF key = KeySigningPublicKeyDigest
    THEN [run |-> FALSE, cont |-> TRUE, err |-> "nil",
          h |-> [h EXCEPT !.jsonSigningPublicKey = decoded.val]]
    ELSE [run |-> FALSE, cont |-> TRUE, err |-> "nil",
          h |-> [h EXCEPT !.jsonSignature = decoded.val]]

\* a faulty return from the handler: continue=false is not looked at
StreamAfterHandlerNoHalt(base, rd, vs, h, cont, herr) ==
    LET a == AfterRead(stateJSONSeekingNextPair, base.readErr)
        back == [base EXCEPT !.continueStreaming = cont, !.readErr = "nil"]
        st == IF herr # "nil" THEN [back EXCEPT !.at = "done", !.ret = herr]
              ELSE IF a = "next"
              THEN [back EXCEPT !.state = stateJSONSeekingNextPair, !.at = "loop"]
              ELSE [back EXCEPT !.state = stateJSONSeekingNextPair, !.at = "done",
                                !.ret = a]
    IN  StreamMoves(rd, st, IF herr = "nil" THEN NewValueStreamer ELSE vs, h)

\* Stream after the handler returned (cont, herr), from the frame base: an
\* error or a halt returns; otherwise the state is SeekingNextPair and the
\* iteration ends with the test of the readErr that came with the quote
StreamAfterHandler(base, rd, vs, h, cont, herr) ==
    LET a == AfterRead(stateJSONSeekingNextPair, base.readErr)
        back == [base EXCEPT !.continueStreaming = cont, !.readErr = "nil"]
        st == IF herr # "nil" THEN [back EXCEPT !.at = "done", !.ret = herr]
              ELSE IF ~cont THEN [back EXCEPT !.at = "done", !.ret = "nil"]
              ELSE IF a = "next"
              THEN [back EXCEPT !.state = stateJSONSeekingNextPair, !.at = "loop"]
              ELSE [back EXCEPT !.state = stateJSONSeekingNextPair, !.at = "done",
                                !.ret = a]
    IN  StreamMoves(rd, st, IF cont /\ herr = "nil" THEN NewValueStreamer ELSE vs, h)

(***************************************************************************)
(* limitedJSONStreamer.Stream: one iteration of its loop.                  *)
(***************************************************************************)
StreamRead ==
    /\ streamer.at = "loop"
    /\ mode = "package" => pc = "stream"
    /\ \E r \in SourceReads :
         LET step == IF r.n > 0
                     THEN StreamByte(streamer.state, streamer.keyBuffer, r.b)
                     ELSE [state |-> streamer.state, keyBuffer |-> streamer.keyBuffer,
                           do |-> "next"]
             st == [streamer EXCEPT !.state = step.state, !.keyBuffer = step.keyBuffer,
                                    !.n = r.n]
             e == HandlerEntry(step.keyBuffer)
             inHandler == [st EXCEPT !.at = "handler", !.readErr = r.err]
             a == IF step.do = "next" THEN AfterRead(step.state, r.err) ELSE step.do
         IN  IF step.do = "call"
             THEN /\ calls' = IF mode = "package" THEN calls
                              ELSE Append(calls, [key |-> step.keyBuffer, value |-> <<>>,
                                                  at |-> r.reader.pos])
                  /\ IF e.run
                     THEN StreamMoves(r.reader, inHandler, NewValueStreamer, e.h)
                     ELSE StreamAfterHandler(inHandler, r.reader, NewValueStreamer, e.h,
                                             e.cont, e.err)
             ELSE /\ calls' = calls
                  /\ StreamMoves(r.reader,
                                 IF a = "next" THEN st
                                 ELSE [st EXCEPT !.at = "done", !.ret = a],
                                 valueStreamer, CurHandler)

(***************************************************************************)
(* limitedJSONValueStreamer.Read.                                          *)
(***************************************************************************)
\* a faulty call: eof is not looked at
ValueReadCallNoEOF(vs, k) ==
    [vs EXCEPT !.mutex = TRUE, !.len = k, !.i = 0, !.p = <<>>]

\* Read(p) with len(p) = k is called: it takes the mutex, and returns
\* (0, io.EOF) at once when eof is set
ValueReadCall(vs, k) ==
    IF vs.eof THEN [vs EXCEPT !.ret = [n |-> 0, err |-> "EOF"]]
    ELSE [vs EXCEPT !.mutex = TRUE, !.len = k, !.i = 0, !.p = <<>>]

\* a faulty iteration: the closing quote is counted as a byte of the value
ValueReadByteCountsQuote(vs, r) ==
    LET p2 == IF r.n = 1 THEN Append(SubSeq(vs.p, 1, vs.i), r.b) ELSE vs.p
        isQuote == r.n = 1 /\ r.b = QUOTE
        isEscape == r.n = 1 /\ r.b = BSLASH
        e == IF isQuote THEN "EOF"
             ELSE IF isEscape THEN "UnsupportedEscape" ELSE r.err
    IN  IF e # "nil"
        THEN [vs EXCEPT !.eof = @ \/ isQuote, !.p = p2, !.len = 0, !.mutex = FALSE,
                        !.ret = [n |-> IF isQuote THEN vs.i + 1 ELSE vs.i, err |-> e]]
        ELSE IF vs.i + 1 = vs.len
        THEN [vs EXCEPT !.p = p2, !.i = @ + 1, !.len = 0, !.mutex = FALSE,
                        !.ret = [n |-> vs.i + 1, err |-> "nil"]]
        ELSE [vs EXCEPT !.p = p2, !.i = @ + 1]

\* a faulty iteration: a backslash is a byte like any other
ValueReadByteNoEscapeCheck(vs, r) ==
    LET p2 == IF r.n = 1 THEN Append(SubSeq(vs.p, 1, vs.i), r.b) ELSE vs.p
        isQuote == r.n = 1 /\ r.b = QUOTE
        e == IF isQuote THEN "EOF" ELSE r.err
    IN  IF e # "nil"
        THEN [vs EXCEPT !.eof = @ \/ isQuote, !.p = p2, !.len = 0, !.mutex = FALSE,
                        !.ret = [n |-> vs.i, err |-> e]]
        ELSE IF vs.i + 1 = vs.len
        THEN [vs EXCEPT !.p = p2, !.i = @ + 1, !.len = 0, !.mutex = FALSE,
                        !.ret = [n |-> vs.i + 1, err |-> "nil"]]
        ELSE [vs EXCEPT !.p = p2, !.i = @ + 1]

\* One iteration of Read's loop, r being what the source's Read returned:
\* the byte is stored in p[i]; a quote sets eof and ends the loop with
\* io.EOF, a backslash ends it with an error, and so does the source's
\* error; the loop's break leaves i as it is. Read returns (i, err).
ValueReadByte(vs, r) ==
    LET p2 == IF r.n = 1 THEN Append(SubSeq(vs.p, 1, vs.i), r.b) ELSE vs.p
        isQuote == r.n = 1 /\ r.b = QUOTE
        isEscape == r.n = 1 /\ r.b = BSLASH
        e == IF isQuote THEN "EOF"
             ELSE IF isEscape THEN "UnsupportedEscape" ELSE r.err
    IN  IF e # "nil"
        THEN [vs EXCEPT !.eof = @ \/ isQuote, !.p = p2, !.len = 0, !.mutex = FALSE,
                        !.ret = [n |-> vs.i, err |-> e]]
        ELSE IF vs.i + 1 = vs.len
        THEN [vs EXCEPT !.p = p2, !.i = @ + 1, !.len = 0, !.mutex = FALSE,
                        !.ret = [n |-> vs.i + 1, err |-> "nil"]]
        ELSE [vs EXCEPT !.p = p2, !.i = @ + 1]

\* the value streamer once a Read's result has been taken
ValueReadTaken(vs) == [vs EXCEPT !.ret = NoResult, !.p = <<>>, !.i = 0]

\* the bytes a finished Read returned
ValueReadGot(vs) == SubSeq(vs.p, 1, vs.ret.n)

InHandler == streamer.at = "handler"
InCaller == mode = "package" /\ pc = "done" /\ payload # NIL /\ fileOpen

\* the handler calls value.Read
HandlerRead ==
    /\ InHandler
    /\ valueStreamer.len = 0 /\ valueStreamer.ret = NoResult
    /\ \E k \in (IF mode = "package" THEN {MaxBuf} ELSE 1..MaxBuf) :
         valueStreamer' = ValueReadCall(valueStreamer, k)
    /\ UNCHANGED <<reader, streamer, calls, handlerVars, pkgVars, file, memResult, inVars, otherVars,
                   callerVars>>

\* an iteration of the loop of the Read in progress
ReadIter ==
    /\ valueStreamer.len > 0
    /\ \E r \in SourceReads :
         /\ reader' = r.reader
         /\ valueStreamer' = ValueReadByte(valueStreamer, r)
    /\ UNCHANGED <<streamer, calls, handlerVars, pkgVars, file, memResult, inVars, otherVars,
                   callerVars>>

\* the handler takes the result of its Read
HandlerGot ==
    /\ InHandler
    /\ valueStreamer.ret # NoResult
    /\ LET got == ValueReadGot(valueStreamer)
           s == HandlerStep(streamer.keyBuffer, got, valueStreamer.ret.err)
           vs == ValueReadTaken(valueStreamer)
       IN  /\ calls' = IF mode = "package" THEN calls
                       ELSE [calls EXCEPT ![Len(calls)].value = @ \o got]
           /\ IF s.run THEN StreamMoves(reader, streamer, vs, s.h)
              ELSE StreamAfterHandler(streamer, reader, vs, s.h, s.cont, s.err)

\* a bare streamer's handler returns continue=false before the value's end
HandlerHalt ==
    /\ mode = "bare" /\ InHandler
    /\ valueStreamer.len = 0 /\ valueStreamer.ret = NoResult
    /\ calls' = calls
    /\ StreamAfterHandler(streamer, reader, valueStreamer, CurHandler, FALSE, "nil")

\* a bare streamer's handler returns an error of its own
HandlerFail ==
    /\ mode = "bare" /\ InHandler
    /\ valueStreamer.len = 0 /\ valueStreamer.ret = NoResult
    /\ calls' = calls
    /\ StreamAfterHandler(streamer, reader, valueStreamer, CurHandler, FALSE, "HandlerError")

(***************************************************************************)
(* The in-memory writer and reader, called before the streaming reader.    *)
(***************************************************************************)
WritePackage ==
    /\ mode = "package" /\ pc = "write"
    /\ written.data # NIL
    /\ LET w == WriteAuthenticatedDataPackage(written.data, written.pub, written.priv)
       IN  /\ file' = w.pkg
           /\ pc' = IF w.err = "none" THEN "read" ELSE "stop"
    /\ UNCHANGED <<fileOpen, memResult, pass, closeOnError, payload, err, handlerVars,
                   reader, streamer, calls, valueStreamer, inVars, otherVars, callerVars>>

ReadPackage ==
    /\ mode = "package" /\ pc = "read"
    /\ memResult' = ReadAuthenticatedDataPackage(file, signingPublicKey)
    /\ pc' = "open"
    /\ UNCHANGED <<file, fileOpen, pass, closeOnError, payload, err, handlerVars,
                   reader, streamer, calls, valueStreamer, inVars, otherVars, callerVars>>

(***************************************************************************)
(* StreamingReadAuthenticatedDataPackage.                                  *)
(***************************************************************************)
\* os.Open and the defer statement; os.Open may fail
Open ==
    /\ mode = "package" /\ pc = "open"
    /\ \E ok \in BOOLEAN :
         IF ok
         THEN /\ fileOpen' = TRUE
              /\ closeOnError' = <<"file">>
              /\ pass' = 0
              /\ pc' = "seek"
              /\ err' = err
         ELSE /\ pc' = "done"
              /\ err' = "Open"
              /\ UNCHANGED <<fileOpen, closeOnError, pass>>
    /\ UNCHANGED <<file, memResult, payload, handlerVars, reader, streamer, calls,
                   valueStreamer, inVars, otherVars, callerVars>>

\* file.Seek(0, 0) at the top of a pass; it may fail
Seek ==
    /\ mode = "package" /\ pc = "seek"
    /\ calls' = calls
    /\ \E ok \in BOOLEAN :
         IF ok
         THEN /\ pc' = "zlib"
              /\ UNCHANGED <<file, fileOpen, memResult, pass, closeOnError, payload, err,
                             handlerVars, reader, streamer, valueStreamer, inVars, otherVars,
                             callerVars>>
         ELSE ReturnError("Seek")

\* zlib.NewReader(file), which reads the header, then the pass's variables:
\* a new hash, no data, digest or signature, and a new streamer
NewReader ==
    /\ mode = "package" /\ pc = "zlib"
    /\ calls' = calls
    /\ LET d == Decompress(file)
       IN  IF ~d.ok THEN ReturnError("Zlib")
           ELSE /\ reader' = [NoReader EXCEPT !.src = d.out]
                /\ SetHandler([NoHandler EXCEPT !.hash = [hash EXCEPT ![pass] = <<>>]])
                /\ streamer' = NewStreamer
                /\ valueStreamer' = NewValueStreamer
                /\ pc' = "stream"
                /\ UNCHANGED <<file, fileOpen, memResult, pass, closeOnError, payload, err,
                               inVars, otherVars, callerVars>>

\* a faulty end of pass 0: the signature is not verified
VerifyResultNoSignature ==
    LET rsaPublicKey == ParsePublicKey(signingPublicKey)
    IN  IF jsonSigningPublicKey = NIL \/ jsonSignature = NIL THEN "MissingField"
        ELSE IF ~rsaPublicKey.ok THEN "InvalidKey"
        ELSE IF jsonSigningPublicKey # sha256sum(signingPublicKey) THEN "KeyMismatch"
        ELSE "nil"

\* a faulty end of pass 0: neither the digest nor the signature is checked
VerifyResultPresenceOnly ==
    LET rsaPublicKey == ParsePublicKey(signingPublicKey)
    IN  IF jsonSigningPublicKey = NIL \/ jsonSignature = NIL THEN "MissingField"
        ELSE IF ~rsaPublicKey.ok THEN "InvalidKey"
        ELSE "nil"

\* what pass 0 returns once Stream has returned nil ("nil": on to pass 1)
VerifyResult ==
    LET rsaPublicKey == ParsePublicKey(signingPublicKey)
    IN  IF jsonSigningPublicKey = NIL \/ jsonSignature = NIL THEN "MissingField"
        ELSE IF ~rsaPublicKey.ok THEN "InvalidKey"
        ELSE IF jsonSigningPublicKey # sha256sum(signingPublicKey) THEN "KeyMismatch"
        ELSE IF ~VerifyPKCS1v15(rsaPublicKey.id, sha256sum(hash[0]), jsonSignature)
        THEN "SignatureInvalid"
        ELSE "nil"

\* the end of pass 0's iteration
VerifyPass0 ==
    /\ mode = "package" /\ pc = "verify"
    /\ calls' = calls
    /\ IF VerifyResult # "nil" THEN ReturnError(VerifyResult)
       ELSE /\ pass' = 1
            /\ pc' = "seek"
            /\ reader' = NoReader
            /\ streamer' = NoStreamer
            /\ UNCHANGED <<file, fileOpen, memResult, closeOnError, payload, err,
                           handlerVars, valueStreamer, inVars, otherVars, callerVars>>

\* a faulty end of pass 1: jsonData is not tested
ExposePass1NoCheck ==
    /\ mode = "package" /\ pc = "expose"
    /\ calls' = calls
    /\ payload' = jsonData \o <<"file">>
    /\ closeOnError' = NIL
    /\ err' = "nil"
    /\ pc' = "done"
    /\ UNCHANGED <<file, fileOpen, memResult, pass, handlerVars, reader, streamer,
                   valueStreamer, inVars, otherVars, callerVars>>

\* the end of pass 1's iteration and the return of the payload
ExposePass1 ==
    /\ mode = "package" /\ pc = "expose"
    /\ calls' = calls
    /\ IF jsonData = NIL THEN ReturnError("MissingField")
       ELSE /\ payload' = jsonData \o <<"file">>
            /\ closeOnError' = NIL
            /\ err' = "nil"
            /\ pc' = "done"
            /\ UNCHANGED <<file, fileOpen, memResult, pass, handlerVars, reader, streamer,
                           valueStreamer, inVars, otherVars, callerVars>>

(***************************************************************************)
(* The caller, with the payload in hand: it reads with buffers of its      *)
(* choice, goes on reading after the end if it likes, and closes.          *)
(***************************************************************************)
CallerRead ==
    /\ InCaller
    /\ outErr \in {"nil", "EOF"}
    /\ valueStreamer.len = 0 /\ valueStreamer.ret = NoResult
    /\ \E k \in 1..MaxBuf : valueStreamer' = ValueReadCall(valueStreamer, k)
    /\ UNCHANGED <<reader, streamer, calls, handlerVars, pkgVars, file, memResult, inVars, otherVars,
                   callerVars>>

CallerGot ==
    /\ InCaller
    /\ valueStreamer.ret # NoResult
    /\ out' = out \o ValueReadGot(valueStreamer)
    /\ outErr' = valueStreamer.ret.err
    /\ valueStreamer' = ValueReadTaken(valueStreamer)
    /\ UNCHANGED <<reader, streamer, calls, handlerVars, pkgVars, file, memResult, inVars, otherVars>>

\* payload.Close(): the Closer is the file
CallerClose ==
    /\ InCaller
    /\ valueStreamer.len = 0 /\ valueStreamer.ret = NoResult
    /\ fileOpen' = FALSE
    /\ UNCHANGED <<reader, streamer, calls, handlerVars, pc, pass, closeOnError, payload,
                   err, valueStreamer, file, memResult, inVars, otherVars, callerVars>>

(***************************************************************************)
(* The packages of the model.                                              *)
(***************************************************************************)
\* the payloads WriteAuthenticatedDataPackage is called with
DataStrings == SeqsUpTo(DataAlphabet, MaxData)

\* the payloads of hand-made packages: no byte the JSON encoder escapes
PlainStrings == SeqsUpTo({"a"}, MaxData)

Member(key, raw) == [key |-> key, raw |-> raw]

\* the three members of a package signed by key pair A: data is d, and the
\* signature is one of s
Members(d, s) ==
    <<Member(KeyData, d),
      Member(KeySigningPublicKeyDigest, EncodeToString(sha256sum(PubKeyA))),
      Member(KeySignature, EncodeToString(SignPKCS1v15("A", sha256sum(s))))>>

Orders == {<<1, 2, 3>>, <<1, 3, 2>>, <<2, 1, 3>>, <<2, 3, 1>>, <<3, 1, 2>>, <<3, 2, 1>>}

Reorder(ms, o) == [i \in 1..3 |-> ms[o[i]]]

\* a member that is none of the three, and second data members
ExtraMembers ==
    {Member(<<"x">>, <<"a">>), Member(<<"x">>, <<>>), Member(KeyData, <<>>),
     Member(KeyData, <<"a">>)}

\* One change to a member list: a member dropped, a member added, a
\* backslash put into a value or a key, a value that is not base64.
Edits(ms) ==
    {RemoveAt(ms, i) : i \in 1..Len(ms)}
    \cup {InsertAt(ms, j, x) : j \in 0..Len(ms), x \in ExtraMembers}
    \cup UNION {{[ms EXCEPT ![i].raw = InsertAt(@, j, BSLASH)] : j \in 0..Len(ms[i].raw)} :
                 i \in 1..Len(ms)}
    \cup UNION {{[ms EXCEPT ![i].key = InsertAt(@, j, BSLASH)] : j \in {0, Len(ms[i].key)}} :
                 i \in 1..Len(ms)}
    \cup {[ms EXCEPT ![i].raw = Append(@, "?")] : i \in 2..Len(ms)}

RECURSIVE JoinMembers(_, _)
JoinMembers(ms, sep) ==
    IF ms = <<>> THEN <<>>
    ELSE MemberBytes(Head(ms).key, Head(ms).raw)
         \o (IF Len(ms) > 1 THEN sep ELSE <<>>) \o JoinMembers(Tail(ms), sep)

\* the object with the members ms, without whitespace
Compact(ms) == <<LBRACE>> \o JoinMembers(ms, <<COMMA>>) \o <<RBRACE>>

RECURSIVE JoinSpaced(_)
JoinSpaced(ms) ==
    IF ms = <<>> THEN <<>>
    ELSE <<"\t", QUOTE>> \o Head(ms).key \o <<QUOTE, "\r", COLON, "\n", QUOTE>>
         \o Head(ms).raw \o <<QUOTE, " ">>
         \o (IF Len(ms) > 1 THEN <<COMMA>> ELSE <<>>) \o JoinSpaced(Tail(ms))

\* the same object with whitespace around every token
Spaced(ms) == <<" ", LBRACE>> \o JoinSpaced(ms) \o <<RBRACE, "\n">>

\* a package as WriteAuthenticatedDataPackage lays it out, signed by A
Sample == Compact(Members(<<"a">>, <<"a">>))

\* The hand-made package files: the three members in every order, the data
\* and the signed string chosen apart; a package whose data is what was
\* signed, in every order, with one change; such a package with whitespace;
\* a package whose data holds backslashes, signed as it stands; the sample
\* cut short at every length, and with a byte after its end; and bytes that
\* are no zlib stream.
CraftedFiles ==
    {Compress(Compact(Reorder(Members(d, s), o))) :
        d \in PlainStrings, s \in PlainStrings, o \in Orders}
    \cup {Compress(Compact(Members(d, d))) : d \in SeqsUpTo({"a", BSLASH}, MaxData)}
    \cup UNION {{Compress(Compact(ms)) : ms \in Edits(Reorder(Members(d, d), o))} :
                  d \in PlainStrings, o \in Orders}
    \cup {Compress(Spaced(Reorder(Members(d, d), o))) : d \in PlainStrings, o \in Orders}
    \cup {Compress(SubSeq(Sample, 1, n)) : n \in 0..(Len(Sample) - 1)}
    \cup {Compress(Append(Sample, "a")), Compress(Append(Sample, " ")), Sample}

(***************************************************************************)
(* The specifications.                                                     *)
(***************************************************************************)
\* ReadAuthenticatedDataPackage has not been called
NotRead == [err |-> "notcalled", data |-> <<>>]

\* the file is not written by WriteAuthenticatedDataPackage
NotWritten == [data |-> NIL, pub |-> NIL, priv |-> NIL]

InitCommon ==
    /\ fileOpen = FALSE
    /\ memResult = NotRead
    /\ pass = 0
    /\ closeOnError = NIL
    /\ payload = NIL
    /\ err = "nil"
    /\ hash = NoHash
    /\ jsonData = NIL
    /\ jsonSigningPublicKey = NIL
    /\ jsonSignature = NIL
    /\ acc = <<>>
    /\ calls = <<>>
    /\ valueStreamer = NewValueStreamer
    /\ out = <<>>
    /\ outErr = "nil"
    /\ earlier = <<>>
    /\ locked = <<>>

\* A package file is written by WriteAuthenticatedDataPackage, with any of
\* the payloads and a key pair that matches or not, or is hand-made; then it
\* is read by ReadAuthenticatedDataPackage and by
\* StreamingReadAuthenticatedDataPackage, with a key of the caller's.
Init ==
    /\ mode = "package"
    /\ reader = NoReader
    /\ streamer = NoStreamer
    /\ signingPublicKey \in {PubKeyA, PubKeyB, BadKey}
    /\ \/ /\ written \in [data : DataStrings, pub : {PubKeyA, PubKeyB},
                          priv : {PrivKeyA, PrivKeyB, BadKey}]
          /\ file = NIL
          /\ pc = "write"
       \/ /\ written = NotWritten
          /\ file \in CraftedFiles
          /\ signingPublicKey # BadKey
          /\ pc = "read"
    /\ proxy = NoProxy
    /\ goroutines = NoGoroutines
    /\ InitCommon

Next ==
    \/ WritePackage
    \/ ReadPackage
    \/ Open
    \/ Seek
    \/ NewReader
    \/ StreamRead
    \/ HandlerRead
    \/ ReadIter
    \/ HandlerGot
    \/ VerifyPass0
    \/ ExposePass1
    \/ CallerRead
    \/ CallerGot
    \/ CallerClose

Spec == Init /\ [][Next]_vars

\* the keys and values of the objects a bare streamer is given whole
ShortStrings == {<<>>, <<"a">>, <<LBRACE>>}

ShortMembers == {Member(k, v) : k \in ShortStrings, v \in ShortStrings}

\* the lists of two and three members
ShortLists ==
    {<<x, y>> : x \in ShortMembers, y \in ShortMembers}
    \cup {<<x, y, x>> : x \in ShortMembers, y \in ShortMembers}

\* the objects of two and three members, with and without whitespace
ManyMembers == {Compact(ms) : ms \in ShortLists} \cup {Spaced(ms) : ms \in ShortLists}

\* A bare limitedJSONStreamer, over a source of at most MaxLen bytes decided
\* as they are read, or over an object of several members, whole or cut
\* short or with one byte more.
InitStream ==
    /\ mode = "bare"
    /\ \/ reader = [NoReader EXCEPT !.lazy = TRUE]
       \/ \E s \in ManyMembers :
            \/ reader = [NoReader EXCEPT !.src = s]
            \/ \E b \in Alphabet : reader = [NoReader EXCEPT !.src = Append(s, b)]
    /\ streamer = NewStreamer
    /\ signingPublicKey = NIL
    /\ written = NotWritten
    /\ file = NIL
    /\ pc = "bare"
    /\ proxy = NoProxy
    /\ goroutines = NoGoroutines
    /\ InitCommon

NextStream ==
    \/ StreamRead
    \/ HandlerRead
    \/ ReadIter
    \/ HandlerGot
    \/ HandlerHalt
    \/ HandlerFail

SpecStream == InitStream /\ [][NextStream]_vars

\* the tokens of the object with the members ms: braces, strings, colons and
\* commas, each a sequence of bytes
RECURSIVE MemberTokens(_)
MemberTokens(ms) ==
    IF ms = <<>> THEN <<>>
    ELSE <<<<QUOTE>> \o Head(ms).key \o <<QUOTE>>, <<COLON>>,
           <<QUOTE>> \o Head(ms).raw \o <<QUOTE>>>>
         \o (IF Len(ms) > 1 THEN <<<<COMMA>>>> ELSE <<>>) \o MemberTokens(Tail(ms))

ObjectTokens(ms) == <<<<LBRACE>>>> \o MemberTokens(ms) \o <<<<RBRACE>>>>

\* a sequence of tokens as it stands, with one token left out, with one
\* token twice, and with one token replaced by a bare letter
TokenEdits(ts) ==
    {ts} \cup {RemoveAt(ts, i) : i \in 1..Len(ts)}
         \cup {InsertAt(ts, i, ts[i]) : i \in 1..Len(ts)}
         \cup {[ts EXCEPT ![i] = <<"a">>] : i \in 1..Len(ts)}

\* the objects of one and two members whose keys and values are empty or a
\* letter: without whitespace, whole or with one token changed, and whole
\* with whitespace around every token
LayoutInputs ==
    LET strings == {<<>>, <<"a">>}
        members == {Member(k, v) : k \in strings, v \in strings}
        lists == {<<x>> : x \in members}
                 \cup {<<x, y>> : x \in members, y \in members}
    IN  UNION {{Flatten(ts) : ts \in TokenEdits(ObjectTokens(ms))} : ms \in lists}
        \cup {Spaced(ms) : ms \in lists}

\* space, tab, CR and LF
WhitespaceBytes == {" ", "\t", "\r", "\n"}

\* the first n bytes of s end outside a string: they hold an even number
\* of quotes
OutsideString(s, n) == Cardinality({j \in 1..n : s[j] = QUOTE}) % 2 = 0

\* the inputs that differ from s by one whitespace byte between tokens,
\* inserted or deleted
WhitespaceVariants(s) ==
    {InsertAt(s, i, w) : i \in {j \in 0..Len(s) : OutsideString(s, j)},
                         w \in WhitespaceBytes}
    \cup {RemoveAt(s, i) : i \in {j \in 1..Len(s) :
                                    /\ s[j] \in WhitespaceBytes
                                    /\ OutsideString(s, j - 1)}}

\* the keys and the value bytes the handler was invoked with
KeyValues(cs) == [i \in 1..Len(cs) |-> [key |-> cs[i].key, value |-> cs[i].value]]

\* The caller of a Stream that has returned, no Read of its source having
\* failed, runs a new limitedJSONStreamer over an input that differs from
\* the first by whitespace between tokens.
StreamAgain ==
    /\ mode = "bare" /\ streamer.at = "done" /\ streamer.ret # "IO"
    /\ earlier = <<>>
    /\ \E s \in WhitespaceVariants(reader.src) :
            reader' = [NoReader EXCEPT !.src = s]
    /\ earlier' = <<[src |-> reader.src, ret |-> streamer.ret,
                     calls |-> KeyValues(calls)]>>
    /\ streamer' = NewStreamer
    /\ calls' = <<>>
    /\ valueStreamer' = NewValueStreamer
    /\ UNCHANGED <<handlerVars, pkgVars, file, memResult, inVars, callerVars, proxy,
                   goroutines, locked>>

\* A bare limitedJSONStreamer whose handler drains every value, run over one
\* of the objects and then over the same object with other whitespace.
InitLayout ==
    /\ mode = "bare"
    /\ \E s \in LayoutInputs : reader = [NoReader EXCEPT !.src = s]
    /\ streamer = NewStreamer
    /\ signingPublicKey = NIL
    /\ written = NotWritten
    /\ file = NIL
    /\ pc = "bare"
    /\ proxy = NoProxy
    /\ goroutines = NoGoroutines
    /\ InitCommon

NextLayout ==
    \/ StreamRead
    \/ HandlerRead
    \/ ReadIter
    \/ HandlerGot
    \/ StreamAgain

SpecLayout == InitLayout /\ [][NextLayout]_vars

(***************************************************************************)
(* limitedJSONValueStreamer.Read called by several goroutines.             *)
(***************************************************************************)
\* the value streamer as goroutine g's Read sees it: the shared eof and
\* mutex, and the call's own i, p and results
FrameOf(g) ==
    [eof |-> valueStreamer.eof, mutex |-> valueStreamer.mutex,
     len |-> goroutines[g].len, i |-> goroutines[g].i, p |-> goroutines[g].p,
     ret |-> goroutines[g].ret]

GoReadLockNoMutex(g) ==
    /\ mode = "goroutines"
    /\ ~goroutines[g].stopped
    /\ goroutines[g].len = 0 /\ goroutines[g].ret = NoResult
    /\ \E k \in 1..MaxBuf :
         LET vs == ValueReadCall(FrameOf(g), k)
         IN  /\ valueStreamer' = [valueStreamer EXCEPT !.eof = vs.eof, !.mutex = vs.mutex]
             /\ goroutines' = [goroutines EXCEPT ![g] =
                    [len |-> vs.len, i |-> vs.i, p |-> vs.p, ret |-> vs.ret,
                     stopped |-> FALSE, entry |-> Len(locked) + 1]]
    /\ locked' = Append(locked, [who |-> g, got |-> <<>>, err |-> "running"])
    /\ UNCHANGED <<inVars, file, memResult, pkgVars, handlerVars, reader, streamer,
                   calls, callerVars, earlier, proxy>>

\* goroutine g calls Read(p) with len(p) = k: streamer.mutex.Lock() returns
\* when no other call holds the mutex; the call then tests eof
GoReadLock(g) ==
    /\ mode = "goroutines"
    /\ ~goroutines[g].stopped
    /\ goroutines[g].len = 0 /\ goroutines[g].ret = NoResult
    /\ ~valueStreamer.mutex
    /\ \E k \in 1..MaxBuf :
         LET vs == ValueReadCall(FrameOf(g), k)
         IN  /\ valueStreamer' = [valueStreamer EXCEPT !.eof = vs.eof, !.mutex = vs.mutex]
             /\ goroutines' = [goroutines EXCEPT ![g] =
                    [len |-> vs.len, i |-> vs.i, p |-> vs.p, ret |-> vs.ret,
                     stopped |-> FALSE, entry |-> Len(locked) + 1]]
    /\ locked' = Append(locked, [who |-> g, got |-> <<>>, err |-> "running"])
    /\ UNCHANGED <<inVars, file, memResult, pkgVars, handlerVars, reader, streamer,
                   calls, callerVars, earlier, proxy>>

\* an iteration of the loop of g's Read; the last one returns and, by the
\* deferred call, unlocks the mutex
GoReadIter(g) ==
    /\ mode = "goroutines"
    /\ goroutines[g].len > 0
    /\ \E r \in SourceReads :
         LET vs == ValueReadByte(FrameOf(g), r)
         IN  /\ reader' = r.reader
             /\ valueStreamer' = [valueStreamer EXCEPT !.eof = vs.eof, !.mutex = vs.mutex]
             /\ goroutines' = [goroutines EXCEPT ![g].len = vs.len, ![g].i = vs.i,
                                                 ![g].p = vs.p, ![g].ret = vs.ret]
    /\ UNCHANGED <<inVars, file, memResult, pkgVars, handlerVars, streamer,
                   calls, callerVars, earlier, proxy, locked>>

\* goroutine g takes the result of its Read; after an error it calls no more
GoReadGot(g) ==
    /\ mode = "goroutines"
    /\ goroutines[g].ret # NoResult
    /\ locked' = [locked EXCEPT ![goroutines[g].entry] =
                     [who |-> g, got |-> ValueReadGot(FrameOf(g)),
                      err |-> goroutines[g].ret.err]]
    /\ goroutines' = [goroutines EXCEPT ![g] =
                         [NoCall EXCEPT !.stopped = goroutines[g].ret.err # "nil"]]
    /\ UNCHANGED <<inVars, file, memResult, pkgVars, handlerVars, reader, streamer,
                   calls, valueStreamer, callerVars, earlier, proxy>>

\* the values the goroutines read, and what follows their closing quote
ValueSources ==
    {v \o <<QUOTE>> \o rest :
        v \in {<<>>, <<"a">>, <<"a", "b">>, <<"a", "b", "c">>},
        rest \in {<<>>, <<RBRACE>>, <<COMMA, QUOTE>>}}

\* A limitedJSONValueStreamer over a source that stands at the first byte of
\* a value, and two goroutines that call its Read.
InitGoroutines ==
    /\ mode = "goroutines"
    /\ \E s \in ValueSources : reader = [NoReader EXCEPT !.src = s]
    /\ streamer = NoStreamer
    /\ signingPublicKey = NIL
    /\ written = NotWritten
    /\ file = NIL
    /\ pc = "none"
    /\ proxy = NoProxy
    /\ goroutines = NoGoroutines
    /\ InitCommon

NextGoroutines ==
    \E g \in GoIds :
        \/ GoReadLock(g)
        \/ GoReadIter(g)
        \/ GoReadGot(g)

SpecGoroutines == InitGoroutines /\ [][NextGoroutines]_vars

(***************************************************************************)
(* SocksProxy: the accept loop's goroutine (serve), the handlers' goroutines *)
(* and Close.                                                              *)
(***************************************************************************)
\* Conns, the set of tracked connections: Add tracks a connection, Remove
\* stops tracking it, CloseAll closes every tracked connection and tracks
\* none afterwards.
ConnsAdd(openConns, c) == openConns \cup {c}

ConnsRemove(openConns, c) == openConns \ {c}

ConnsCloseAll(conns, openConns) ==
    [conns |-> [i \in 1..Len(conns) |->
                  IF i \in openConns THEN [conns[i] EXCEPT !.open = FALSE] ELSE conns[i]],
     openConns |-> {}]

\* NewSocksProxy has returned: the listener listens, serveWaitGroup counts
\* the goroutine of serve, which is about to call AcceptSocks
NewSocksProxy ==
    [listener |-> "open", serve |-> "accept", serveWaitGroup |-> 1, close |-> "notcalled",
     conns |-> <<>>, openConns |-> {}, alerts |-> 0, failures |-> 0, err |-> "nil"]

\* What a call of listener.AcceptSocks may return: a connection, an error
\* that is temporary, or an error of the listener that is not ("fatal");
\* once the listener is closed, the pending call and every later one return
\* the error of a closed listener ("closed"), a net.Error that is not
\* temporary.
AcceptSocks(listener) ==
    IF listener = "open" THEN {"conn", "temporary", "fatal"} ELSE {"closed"}

\* serve's loop: AcceptSocks returns.  A connection is handed to a new
\* goroutine; a temporary error is noticed and the loop continues; an error
\* that is not temporary leads to SignalFailure and the break.
SocksServeAccept ==
    /\ mode = "socks" /\ proxy.serve = "accept"
    /\ \E r \in AcceptSocks(proxy.listener) :
         \/ /\ r = "conn" /\ Len(proxy.conns) < MaxConns
            /\ proxy' = [proxy EXCEPT !.err = "nil",
                                       !.conns = Append(@, [at |-> "start", open |-> TRUE])]
         \/ /\ r = "temporary" /\ proxy.alerts < MaxAlerts
            /\ proxy' = [proxy EXCEPT !.err = r, !.alerts = @ + 1]
         \/ /\ r \in {"fatal", "closed"}
            /\ proxy' = [proxy EXCEPT !.err = r, !.serve = "signal"]
    /\ UNCHANGED vars_but_proxy

\* serve: tunneler.SignalFailure(), break
SocksServeSignalFailure ==
    /\ mode = "socks" /\ proxy.serve = "signal"
    /\ proxy' = [proxy EXCEPT !.failures = @ + 1, !.serve = "deferDone"]
    /\ UNCHANGED vars_but_proxy

\* serve returns; its deferred calls run last registered first:
\* serveWaitGroup.Done()
SocksServeDeferDone ==
    /\ mode = "socks" /\ proxy.serve = "deferDone"
    /\ proxy' = [proxy EXCEPT !.serveWaitGroup = @ - 1, !.serve = "deferClose"]
    /\ UNCHANGED vars_but_proxy

\* and then listener.Close(), after which the goroutine has terminated
SocksServeDeferClose ==
    /\ mode = "socks" /\ proxy.serve = "deferClose"
    /\ proxy' = [proxy EXCEPT !.listener = "closed", !.serve = "terminated"]
    /\ UNCHANGED vars_but_proxy

\* socksConnectionHandler: openConns.Add(localConn)
SocksHandlerAdd ==
    /\ mode = "socks"
    /\ \E i \in 1..Len(proxy.conns) :
         /\ proxy.conns[i].at = "start"
         /\ proxy' = [proxy EXCEPT !.conns[i].at = "relay",
                                    !.openConns = ConnsAdd(@, i)]
    /\ UNCHANGED vars_but_proxy

\* socksConnectionHandler returns (Dial or Grant failed, or Relay ended);
\* its deferred calls: openConns.Remove(localConn)
SocksHandlerRemove ==
    /\ mode = "socks"
    /\ \E i \in 1..Len(proxy.conns) :
         /\ proxy.conns[i].at = "relay"
         /\ proxy' = [proxy EXCEPT !.conns[i].at = "deferClose",
                                    !.openConns = ConnsRemove(@, i)]
    /\ UNCHANGED vars_but_proxy

\* and then localConn.Close()
SocksHandlerClose ==
    /\ mode = "socks"
    /\ \E i \in 1..Len(proxy.conns) :
         /\ proxy.conns[i].at = "deferClose"
         /\ proxy' = [proxy EXCEPT !.conns[i] = [at |-> "returned", open |-> FALSE]]
    /\ UNCHANGED vars_but_proxy

\* Close: proxy.listener.Close()
SocksCloseListener ==
    /\ mode = "socks" /\ proxy.close = "notcalled"
    /\ proxy' = [proxy EXCEPT !.listener = "closed", !.close = "wait"]
    /\ UNCHANGED vars_but_proxy

SocksCloseWaitNoWait ==
    /\ mode = "socks" /\ proxy.close = "wait"
    /\ proxy' = [proxy EXCEPT !.close = "closeAll"]
    /\ UNCHANGED vars_but_proxy

\* Close: proxy.serveWaitGroup.Wait() returns when the counter is zero
SocksCloseWait ==
    /\ mode = "socks" /\ proxy.close = "wait"
    /\ proxy.serveWaitGroup = 0
    /\ proxy' = [proxy EXCEPT !.close = "closeAll"]
    /\ UNCHANGED vars_but_proxy

\* Close: proxy.openConns.CloseAll() closes the tracked connections, and
\* Close returns
SocksCloseAll ==
    /\ mode = "socks" /\ proxy.close = "closeAll"
    /\ proxy' = [proxy EXCEPT
            !.conns = ConnsCloseAll(proxy.conns, proxy.openConns).conns,
            !.openConns = ConnsCloseAll(proxy.conns, proxy.openConns).openConns,
            !.close = "returned"]
    /\ UNCHANGED vars_but_proxy

InitSocks ==
    /\ mode = "socks"
    /\ proxy = NewSocksProxy
    /\ goroutines = NoGoroutines
    /\ reader = NoReader
    /\ streamer = NoStreamer
    /\ signingPublicKey = NIL
    /\ written = NotWritten
    /\ file = NIL
    /\ pc = "none"
    /\ InitCommon

NextSocks ==
    \/ SocksServeAccept
    \/ SocksServeSignalFailure
    \/ SocksServeDeferDone
    \/ SocksServeDeferClose
    \/ SocksHandlerAdd
    \/ SocksHandlerRemove
    \/ SocksHandlerClose
    \/ SocksCloseListener
    \/ SocksCloseWait
    \/ SocksCloseAll

SpecSocks == InitSocks /\ [][NextSocks]_vars

\* Every goroutine that can take a step is scheduled in the end: the Go
\* scheduler starves none.  An AcceptSocks on an open listener may block for
\* ever, a relay may last for ever, and nothing obliges the caller to call
\* Close.
SpecSocksFair ==
    /\ SpecSocks
    /\ WF_vars((proxy.listener = "closed" /\ SocksServeAccept)
               \/ SocksServeSignalFailure \/ SocksServeDeferDone \/ SocksServeDeferClose)
    /\ WF_vars(SocksCloseWait \/ SocksCloseAll)
    /\ WF_vars(SocksHandlerAdd \/ SocksHandlerClose)

(***************************************************************************)
(* HttpProxy: the goroutine of serve (http.Server.Serve), the connections' *)
(* goroutines, the CONNECT handlers' goroutines and Close.                 *)
(***************************************************************************)
\* NewHttpProxy has returned: the listener listens, serveWaitGroup counts the
\* goroutine of serve, which is about to call httpServer.Serve
NewHttpProxy ==
    [listener |-> "open", serve |-> "serving", serveWaitGroup |-> 1, close |-> "notcalled",
     conns |-> <<>>, openConns |-> {}, alerts |-> 0, failures |-> 0, err |-> "nil"]

\* What httpServer.Serve(listener) does next: it accepts a connection and
\* goes on, or it returns the error of an Accept that is not temporary (it
\* retries the temporary ones itself, "fatal"); once the listener is closed
\* it returns the error of a closed listener ("closed").  It never returns
\* nil.
HttpServe(listener) ==
    IF listener = "open" THEN {"conn", "fatal"} ELSE {"closed"}

\* serve inside httpServer.Serve: a connection is accepted, the ConnState
\* callback is called with StateNew (openConns.Add) and the connection gets
\* its goroutine; or Serve returns its error
HttpServeAccept ==
    /\ mode = "http" /\ proxy.serve = "serving"
    /\ \E r \in HttpServe(proxy.listener) :
         \/ /\ r = "conn" /\ Len(proxy.conns) < MaxConns
            /\ proxy' = [proxy EXCEPT
                    !.conns = Append(@, [at |-> "served", open |-> TRUE]),
                    !.openConns = ConnsAdd(@, Len(proxy.conns) + 1)]
         \/ /\ r \in {"fatal", "closed"}
            /\ proxy' = [proxy EXCEPT !.err = r, !.serve = "signal"]
    /\ UNCHANGED vars_but_proxy

\* serve: err != nil, controller.SignalFailure()
HttpServeSignalFailure ==
    /\ mode = "http" /\ proxy.serve = "signal"
    /\ proxy' = [proxy EXCEPT !.failures = @ + 1, !.serve = "deferDone"]
    /\ UNCHANGED vars_but_proxy

\* serve returns; its deferred calls: serveWaitGroup.Done()
HttpServeDeferDone ==
    /\ mode = "http" /\ proxy.serve = "deferDone"
    /\ proxy' = [proxy EXCEPT !.serveWaitGroup = @ - 1, !.serve = "deferClose"]
    /\ UNCHANGED vars_but_proxy

\* and then listener.Close()
HttpServeDeferClose ==
    /\ mode = "http" /\ proxy.serve = "deferClose"
    /\ proxy' = [proxy EXCEPT !.listener = "closed", !.serve = "terminated"]
    /\ UNCHANGED vars_but_proxy

\* ServeHTTP for a CONNECT request on an open connection: Hijack, upon which
\* the callback is called with StateHijacked (openConns.Remove), and the
\* handler gets its goroutine
HttpConnect ==
    /\ mode = "http"
    /\ \E i \in 1..Len(proxy.conns) :
         /\ proxy.conns[i].at = "served" /\ proxy.conns[i].open
         /\ proxy' = [proxy EXCEPT !.conns[i].at = "start",
                                    !.openConns = ConnsRemove(@, i)]
    /\ UNCHANGED vars_but_proxy

\* a served connection ends (its peer or CloseAll closed it, or forceClose
\* after a failed round trip): the callback is called with StateClosed or
\* StateHijacked (openConns.Remove)
HttpConnClosed ==
    /\ mode = "http"
    /\ \E i \in 1..Len(proxy.conns) :
         /\ proxy.conns[i].at = "served"
         /\ proxy' = [proxy EXCEPT !.conns[i] = [at |-> "closed", open |-> FALSE],
                                    !.openConns = ConnsRemove(@, i)]
    /\ UNCHANGED vars_but_proxy

\* httpConnectHandler: openConns.Add(localConn)
HttpHandlerAdd ==
    /\ mode = "http"
    /\ \E i \in 1..Len(proxy.conns) :
         /\ proxy.conns[i].at = "start"
         /\ proxy' = [proxy EXCEPT !.conns[i].at = "relay",
                                    !.openConns = ConnsAdd(@, i)]
    /\ UNCHANGED vars_but_proxy

\* httpConnectHandler returns (the dial or the Write failed, or Relay ended);
\* its deferred calls: openConns.Remove(localConn)
HttpHandlerRemove ==
    /\ mode = "http"
    /\ \E i \in 1..Len(proxy.conns) :
         /\ proxy.conns[i].at = "relay"
         /\ proxy' = [proxy EXCEPT !.conns[i].at = "deferClose",
                                    !.openConns = ConnsRemove(@, i)]
    /\ UNCHANGED vars_but_proxy

\* and then localConn.Close()
HttpHandlerClose ==
    /\ mode = "http"
    /\ \E i \in 1..Len(proxy.conns) :
         /\ proxy.conns[i].at = "deferClose"
         /\ proxy' = [proxy EXCEPT !.conns[i] = [at |-> "returned", open |-> FALSE]]
    /\ UNCHANGED vars_but_proxy

\* Close: proxy.listener.Close()
HttpCloseListener ==
    /\ mode = "http" /\ proxy.close = "notcalled"
    /\ proxy' = [proxy EXCEPT !.listener = "closed", !.close = "wait"]
    /\ UNCHANGED vars_but_proxy

\* Close: proxy.serveWaitGroup.Wait()
HttpCloseWait ==
    /\ mode = "http" /\ proxy.close = "wait"
    /\ proxy.serveWaitGroup = 0
    /\ proxy' = [proxy EXCEPT !.close = "closeAll"]
    /\ UNCHANGED vars_but_proxy

\* Close: proxy.openConns.CloseAll(), httpRelay.CloseIdleConnections() (the
\* connections to the origin servers), and Close returns
HttpCloseAll ==
    /\ mode = "http" /\ proxy.close = "closeAll"
    /\ proxy' = [proxy EXCEPT
            !.conns = ConnsCloseAll(proxy.conns, proxy.openConns).conns,
            !.openConns = ConnsCloseAll(proxy.conns, proxy.openConns).openConns,
            !.close = "returned"]
    /\ UNCHANGED vars_but_proxy

NextHttp ==
    \/ HttpServeAccept
    \/ HttpServeSignalFailure
    \/ HttpServeDeferDone
    \/ HttpServeDeferClose
    \/ HttpConnect
    \/ HttpConnClosed
    \/ HttpHandlerAdd
    \/ HttpHandlerRemove
    \/ HttpHandlerClose
    \/ HttpCloseListener
    \/ HttpCloseWait
    \/ HttpCloseAll

\* One of the two proxies has been made.
InitProxies ==
    /\ \/ mode = "socks" /\ proxy = NewSocksProxy
       \/ mode = "http" /\ proxy = NewHttpProxy
    /\ goroutines = NoGoroutines
    /\ reader = NoReader
    /\ streamer = NoStreamer
    /\ signingPublicKey = NIL
    /\ written = NotWritten
    /\ file = NIL
    /\ pc = "none"
    /\ InitCommon

NextProxies == NextSocks \/ NextHttp

SpecProxies == InitProxies /\ [][NextProxies]_vars

(***************************************************************************)
(* Properties of StreamingReadAuthenticatedDataPackage and of the          *)
(* in-memory writer and reader (specification Spec).                       *)
(***************************************************************************)
\* the errors of the file system: os.Open, file.Seek, a failed Read
FileErrors == {"Open", "Seek", "IO"}

\* the data holds a byte that the JSON encoder writes as an escape
HasEscaped(data) == Range(data) \cap {QUOTE, BSLASH} # {}

\* the file was written by WriteAuthenticatedDataPackage with a key pair
WrittenByPair ==
    /\ written.data # NIL
    /\ ParsePrivateKey(written.priv).ok
    /\ ParsePrivateKey(written.priv).id = ParsePublicKey(written.pub).id

\* Stream has returned nil at the end of the object in pass 0, the digest in
\* the package is that of the caller's key, and the signature in the package
\* is that key's signature of the SHA-256 of the bytes hashed in pass 0
Pass0Succeeded ==
    /\ pass = 0 /\ pc = "verify"
    /\ streamer.at = "done" /\ streamer.ret = "nil"
    /\ streamer.state = stateJSONObjectEnd
    /\ ParsePublicKey(signingPublicKey).ok
    /\ jsonSigningPublicKey = sha256sum(signingPublicKey)
    /\ jsonSignature = SignPKCS1v15(ParsePublicKey(signingPublicKey).id, sha256sum(hash[0]))

\* C1: pass 1 starts only by a step from a state where pass 0 has parsed the
\* whole object and the digest comparison and the signature verification
\* have succeeded; a payload is returned only in pass 1 with a nil error, so
\* a run whose pass 0 fails returns no reader.
C1_Pass0BeforePass1 ==
    [][/\ (pass' # pass) => (pass' = 1 /\ Pass0Succeeded)
       /\ (pass' = 0 /\ pc' = "done") => payload' = NIL
       /\ (payload' # NIL) => (pass' = 1 /\ pc' = "done" /\ err' = "nil")]_vars

\* C1's case: a payload has been returned after both passes
C1_Witness == pc = "done" /\ pass = 1 /\ payload # NIL /\ err = "nil" /\ hash[0] = <<"a", "a">>

\* C2: when StreamingReadAuthenticatedDataPackage succeeds, the bytes the
\* returned reader yields up to end-of-input are the bytes hashed in pass 0.
C2_PayloadIsHashed ==
    (pc = "done" /\ payload # NIL /\ outErr = "EOF") => out = hash[0]

\* C3: the step by which StreamingReadAuthenticatedDataPackage returns
\* leaves the file closed when it returns an error, and open when it returns
\* the payload.
C3_FileClosedOnError ==
    [][(pc # "done" /\ pc' = "done") =>
          IF err' = "nil" THEN payload' # NIL /\ fileOpen' ELSE payload' = NIL /\ ~fileOpen']_vars

\* C3's case: an error was returned in pass 1, after the file was opened,
\* and the file is closed
C3_Witness == pc = "done" /\ pass = 1 /\ err = "MissingField" /\ ~fileOpen

OtherKey ==
    /\ WrittenByPair
    /\ ParsePublicKey(signingPublicKey).ok
    /\ signingPublicKey # written.pub

KeyErrors == {"KeyMismatch", "SignatureInvalid"}

\* C6 as stated: a package signed with one key pair and verified with
\* another well-formed public key is refused on both paths, with no data and
\* no reader, the failure being the digest mismatch or the signature failure.
C6_KeyBinding ==
    OtherKey =>
        /\ memResult # NotRead => (memResult.err \in KeyErrors /\ memResult.data = <<>>)
        /\ (pc = "done" /\ err \notin FileErrors) => (payload = NIL /\ err \in KeyErrors)

\* C6, amended: the same, except that StreamingReadAuthenticatedDataPackage
\* fails with the parser's unsupported-escape error when the data holds a
\* byte that the JSON encoder writes as an escape.
C6_KeyBindingUnlessEscaped ==
    OtherKey =>
        /\ memResult # NotRead => (memResult.err \in KeyErrors /\ memResult.data = <<>>)
        /\ pc = "done" => (payload = NIL /\ err # "nil")
        /\ (pc = "done" /\ err \notin FileErrors) =>
              IF HasEscaped(written.data) THEN err = "UnsupportedEscape"
              ELSE err \in KeyErrors

\* C6's case: both paths have refused the other key for the digest mismatch
C6_Witness ==
    /\ OtherKey /\ written.data = <<"a">>
    /\ memResult.err = "KeyMismatch" /\ pc = "done" /\ err = "KeyMismatch"

(***************************************************************************)
(* The grammar of the objects, as a matcher of places: each operator takes *)
(* the set P of places of s where a match may start and gives the places   *)
(* where it may end.                                                       *)
(***************************************************************************)
\* WS: any number of whitespace bytes
MatchWS(s, P) ==
    {j \in 1..(Len(s) + 1) : \E i \in P : i <= j /\ \A k \in i..(j - 1) : isWhitespace(s[k])}

\* the byte c
MatchChar(s, P, c) == {i + 1 : i \in {p \in P : p <= Len(s) /\ s[p] = c}}

\* key_chars, value_chars: any number of bytes, none a quote or a backslash
MatchChars(s, P) ==
    {j \in 1..(Len(s) + 1) :
        \E i \in P : i <= j /\ \A k \in i..(j - 1) : s[k] \notin {QUOTE, BSLASH}}

\* pair = '"' key_chars '"' WS ':' WS '"' value_chars '"'
MatchPair(s, P) ==
    LET key == MatchChar(s, MatchChars(s, MatchChar(s, P, QUOTE)), QUOTE)
        colon == MatchChar(s, MatchWS(s, key), COLON)
    IN  MatchChar(s, MatchChars(s, MatchChar(s, MatchWS(s, colon), QUOTE)), QUOTE)

\* (WS ',' WS pair)*
RECURSIVE MatchMorePairs(_, _)
MatchMorePairs(s, P) ==
    LET Q == P \cup MatchPair(s, MatchWS(s, MatchChar(s, MatchWS(s, P), COMMA)))
    IN  IF Q = P THEN P ELSE MatchMorePairs(s, Q)

\* WS '{' WS (pair (WS ',' WS pair)*)? WS '}' WS
InGrammar(s) ==
    LET open == MatchWS(s, MatchChar(s, MatchWS(s, {1}), LBRACE))
        pairs == open \cup MatchMorePairs(s, MatchPair(s, open))
    IN  (Len(s) + 1) \in MatchWS(s, MatchChar(s, MatchWS(s, pairs), RBRACE))

\* WS '{' WS pair (WS ',' WS pair)* WS '}' WS
InGrammarOfPairs(s) ==
    LET open == MatchWS(s, MatchChar(s, MatchWS(s, {1}), LBRACE))
        pairs == MatchMorePairs(s, MatchPair(s, open))
    IN  (Len(s) + 1) \in MatchWS(s, MatchChar(s, MatchWS(s, pairs), RBRACE))

(***************************************************************************)
(* Properties of limitedJSONStreamer.Stream (specification SpecStream) and *)
(* of limitedJSONValueStreamer.Read.                                       *)
(***************************************************************************)
\* Stream has returned, its handler having drained every value and never
\* halted or failed of its own, and no Read of the source having failed
DrainedRun ==
    /\ mode = "bare" /\ streamer.at = "done"
    /\ streamer.ret \notin {"HandlerError", "IO"}
    /\ ~(streamer.ret = "nil" /\ ~streamer.continueStreaming)

\* the ends an input may have after the bytes read so far
Completions ==
    LET whole == <<LBRACE, QUOTE, QUOTE, COLON, QUOTE, QUOTE, RBRACE>>
    IN  {SubSeq(whole, i, Len(whole)) : i \in 1..(Len(whole) + 1)}

\* The inputs Stream may have been given when it returned: the source's
\* bytes, or, when Stream returned before the end of a source that decides
\* its bytes as they are read, the bytes read followed by anything.
StreamInputs ==
    IF reader.lazy /\ ~reader.ended
    THEN {reader.src \o c : c \in Completions}
    ELSE {reader.src}

\* C7 as stated: with a draining handler that always continues, Stream
\* returns nil exactly for the inputs of the grammar
\* WS '{' WS (pair (WS ',' WS pair)*)? WS '}' WS, the object of no pair
\* among them.
C7_Grammar ==
    DrainedRun => \A s \in StreamInputs : (streamer.ret = "nil") <=> InGrammar(s)

\* C7, amended: Stream returns nil exactly for the inputs of the grammar
\* WS '{' WS pair (WS ',' WS pair)* WS '}' WS, and an error for every other
\* input, the object of no pair among them.
C7_GrammarOfPairs ==
    DrainedRun => \A s \in StreamInputs : (streamer.ret = "nil") <=> InGrammarOfPairs(s)

\* C7's case: Stream has returned nil for an object of two pairs
C7_Witness ==
    /\ DrainedRun /\ streamer.ret = "nil"
    /\ reader.src = Spaced(<<Member(<<"a">>, <<>>), Member(<<>>, <<"a">>)>>)
    /\ Len(calls) = 2 /\ calls[1].key = <<"a">> /\ calls[2].value = <<"a">>

\* C8: a package whose JSON holds a backslash in a key or in a value is
\* refused by StreamingReadAuthenticatedDataPackage, and no reader is
\* returned. (Every backslash of the model's packages is in a key or in a
\* value.)
C8_BackslashRejected ==
    (/\ mode = "package" /\ pc = "done" /\ Decompress(file).ok
     /\ BSLASH \in Range(Decompress(file).out)) =>
        (err # "nil" /\ payload = NIL)

\* C8's case: the backslash ends a data value that is signed as it stands
C8_Witness ==
    /\ pc = "done" /\ err = "UnsupportedEscape" /\ payload = NIL
    /\ signingPublicKey = PubKeyA
    /\ file = Compress(Compact(Members(<<"a", BSLASH>>, <<"a", BSLASH>>)))

\* C9: the step by which the handler returns continue=false and no error
\* makes Stream return nil and leaves the source where the handler left it:
\* for a handler that read nothing, at the first byte of the value; and once
\* Stream has returned the source is read no more.
C9_HaltLeavesSource ==
    [][/\ (/\ mode = "bare"
           /\ streamer.at = "handler" /\ streamer'.at # "handler"
           /\ ~streamer'.continueStreaming
           /\ streamer'.ret \in {"nil", "running"}) =>
             /\ streamer'.at = "done" /\ streamer'.ret = "nil"
             /\ reader' = reader
             /\ calls[Len(calls)].value = <<>> => reader'.pos = calls[Len(calls)].at
       /\ (mode = "bare" /\ streamer.at = "done") => reader' = reader]_vars

\* C9's case: the handler has drained a first value and halted at the start
\* of the second, with bytes left in the source
C9_Witness ==
    /\ mode = "bare" /\ streamer.at = "done" /\ streamer.ret = "nil"
    /\ ~streamer.continueStreaming
    /\ Len(calls) = 2 /\ calls[1].value = <<"a">> /\ calls[2].value = <<>>
    /\ reader.pos = calls[2].at /\ reader.pos < Len(reader.src)

\* C10: the iteration of Read that reads a quote ends the call with io.EOF
\* and the count of the bytes before the quote, sets eof, and has consumed
\* the quote; once eof is set, no step reads the source, no Read enters its
\* loop, and a Read returns (0, io.EOF).
C10_QuoteEndsValue ==
    [][/\ (/\ valueStreamer.len > 0
           /\ reader'.pos = reader.pos + 1
           /\ reader'.src[reader'.pos] = QUOTE) =>
             /\ valueStreamer'.eof
             /\ valueStreamer'.ret = [n |-> valueStreamer.i, err |-> "EOF"]
             /\ QUOTE \notin Range(ValueReadGot(valueStreamer'))
       /\ (valueStreamer.eof /\ valueStreamer'.eof) =>
             /\ reader' = reader
             /\ valueStreamer'.len = 0
             /\ valueStreamer'.ret \notin {valueStreamer.ret, NoResult} =>
                   valueStreamer'.ret = [n |-> 0, err |-> "EOF"]]_vars

\* C10's case: the caller, having had io.EOF after the two bytes of the
\* payload, has called Read again and has (0, io.EOF)
C10_Witness ==
    /\ InCaller /\ outErr = "EOF" /\ out = <<"a", "a">>
    /\ valueStreamer.eof /\ valueStreamer.ret = [n |-> 0, err |-> "EOF"]
    /\ reader.src[reader.pos] = QUOTE

(***************************************************************************)
(* Properties of StreamingReadAuthenticatedDataPackage over the members of *)
(* the object (specification Spec).                                        *)
(***************************************************************************)
\* the package files that lack one of the three members, the two others
\* being those of a package that verifies with key A, in every order
LackingMember ==
    {Compress(Compact(RemoveAt(Reorder(Members(d, d), o), i))) :
        d \in PlainStrings, o \in Orders, i \in 1..3}

\* C11: a package that lacks one of data, signingPublicKeyDigest and
\* signature is refused with an error and no reader, also when the members
\* present agree with each other (a signature of the empty string and no
\* data member).
C11_MissingMemberRejected ==
    (file \in LackingMember /\ pc = "done") => (err # "nil" /\ payload = NIL)

\* C11's case: the digest and a signature of the empty string verify in
\* pass 0, and pass 1 ends without a data member
C11_Witness ==
    /\ file = Compress(Compact(Tail(Members(<<>>, <<>>))))
    /\ signingPublicKey = PubKeyA
    /\ pc = "done" /\ pass = 1 /\ err = "MissingField" /\ payload = NIL

\* the members whose key is none of the three
UnknownMembers == {m \in ExtraMembers : m.key \notin {KeyData, KeySigningPublicKeyDigest, KeySignature}}

\* the package files that hold such a member at any place among the three
\* members of a package that verifies with key A, in every order
WithUnknownMember ==
    {Compress(Compact(InsertAt(Reorder(Members(d, d), o), j, x))) :
        d \in PlainStrings, o \in Orders, j \in 0..3, x \in UnknownMembers}

\* C12: a package whose object holds a member with a key other than data,
\* signingPublicKeyDigest and signature is refused with an error and no
\* reader, wherever the member stands.
C12_UnknownKeyRejected ==
    (file \in WithUnknownMember /\ pc = "done") => (err # "nil" /\ payload = NIL)

\* C12's case: the unknown member is the last, after data, and pass 0
\* refuses it
C12_Witness ==
    /\ file = Compress(Compact(Append(Members(<<"a">>, <<"a">>), Member(<<"x">>, <<>>))))
    /\ signingPublicKey = PubKeyA
    /\ pc = "done" /\ pass = 0 /\ err = "UnexpectedKey" /\ payload = NIL

\* Close has been called on the payload that was returned
PayloadClosed == mode = "package" /\ pc = "done" /\ payload # NIL /\ ~fileOpen

\* C13: once Close has been called on the returned payload, the file is
\* closed and so is the zlib decompressor of the pass.
C13_CloseReleasesBoth == PayloadClosed => (~fileOpen /\ reader.closed)

\* the package with data d, the digest of key A, and A's signature of s, its
\* three members in each of the six orders
Orderings(d, s) == {Compress(Compact(Reorder(Members(d, s), o))) : o \in Orders}

\* C15: for a package with each of data, signingPublicKeyDigest and
\* signature once, StreamingReadAuthenticatedDataPackage's outcome does not
\* depend on the order of the members: in all six orders, unless the file
\* system fails, it accepts exactly when the signature is the caller's key's
\* signature of the data, and then the returned reader yields the data.
C15_OrderIndependence ==
    (pc = "done" /\ err \notin FileErrors) =>
        \A d \in PlainStrings, s \in PlainStrings :
            file \in Orderings(d, s) =>
                /\ (err = "nil") = (d = s /\ signingPublicKey = PubKeyA)
                /\ (err = "nil") = (payload # NIL)
                /\ (err = "nil" /\ outErr = "EOF") => out = d

\* C15's case: the package with the signature first, then the digest, then
\* the data was accepted and its payload read to the end
C15_Witness ==
    /\ file = Compress(Compact(Reorder(Members(<<"a", "a">>, <<"a", "a">>), <<3, 2, 1>>)))
    /\ pc = "done" /\ err = "nil" /\ outErr = "EOF" /\ out = <<"a", "a">>

\* C17: when the source reports the end of its input while Stream is in a
\* state other than ObjectEnd, and the handler has not halted, Stream returns
\* an error; Stream returns nil without a halt only in state ObjectEnd at the
\* end of the input, and there it does return nil, also when the last byte
\* comes together with io.EOF, unless that byte is one it rejects.
C17_EOFOnlyAtObjectEnd ==
    (mode = "bare" /\ streamer.at = "done" /\ streamer.continueStreaming) =>
        /\ (reader.ended /\ streamer.state # stateJSONObjectEnd) => streamer.ret # "nil"
        /\ streamer.ret = "nil" => (reader.ended /\ streamer.state = stateJSONObjectEnd)
        /\ (reader.ended /\ streamer.state = stateJSONObjectEnd)
                => streamer.ret \in {"nil", "UnexpectedCharacter"}
        /\ (/\ reader.ended /\ streamer.state = stateJSONObjectEnd /\ streamer.n = 1
            /\ reader.src \in ManyMembers /\ reader.src[Len(reader.src)] = RBRACE)
                => streamer.ret = "nil"

\* C17's case: the closing brace of an object came together with io.EOF and
\* Stream returned nil
C17_Witness ==
    /\ mode = "bare" /\ streamer.at = "done" /\ streamer.continueStreaming
    /\ reader.src = Compact(<<Member(<<"a">>, <<"a">>), Member(<<>>, <<>>)>>)
    /\ reader.ended /\ streamer.n = 1
    /\ streamer.state = stateJSONObjectEnd /\ streamer.ret = "nil"

\* the last quote of s before position n (0: none)
QuoteBefore(s, n) ==
    LET qs == {j \in 1..(n - 1) : s[j] = QUOTE}
    IN  IF qs = {} THEN 0 ELSE CHOOSE j \in qs : \A k \in qs : k <= j

\* the bytes between the quotes of the key of the member whose value's
\* opening quote is the byte at of s
KeyBefore(s, at) ==
    LET close == QuoteBefore(s, at)
        open == QuoteBefore(s, close)
    IN  SubSeq(s, open + 1, close - 1)

\* the whole objects with their members
WholeObjects ==
    {[src |-> Compact(ms), ms |-> ms] : ms \in ShortLists}
    \cup {[src |-> Spaced(ms), ms |-> ms] : ms \in ShortLists}

\* C18: Stream invokes the handler with the bytes between the quotes of the
\* key of the member whose value starts there, whatever the keys before it,
\* and for one member after the other; with a handler that drains and
\* continues it invokes it once for each member of an object, in their
\* order, with the member's key and value; and once the handler has failed
\* or halted there is no further invocation.
C18_OncePerMember ==
    /\ [](mode = "bare" =>
            /\ \A i \in 1..Len(calls) :
                  /\ calls[i].key = KeyBefore(reader.src, calls[i].at)
                  /\ i > 1 => calls[i - 1].at < QuoteBefore(reader.src, QuoteBefore(reader.src, calls[i].at))
            /\ DrainedRun =>
                  \A o \in WholeObjects :
                      (/\ Len(reader.src) >= Len(o.src)
                       /\ SubSeq(reader.src, 1, Len(o.src)) = o.src)
                        => KeyValues(calls) = [i \in 1..Len(o.ms) |->
                                [key |-> o.ms[i].key, value |-> o.ms[i].raw]])
    /\ [][(streamer.ret = "HandlerError" \/ ~streamer.continueStreaming)
            => (calls' = calls /\ streamer'.at = "done")]_vars

\* C18's case: an object of three members, the second with an empty key after
\* a longer one, was streamed to its end
C18_Witness ==
    /\ DrainedRun /\ streamer.ret = "nil"
    /\ reader.src = Compact(<<Member(<<"a">>, <<"a">>), Member(<<>>, <<LBRACE>>),
                              Member(<<"a">>, <<"a">>)>>)
    /\ KeyValues(calls) = <<[key |-> <<"a">>, value |-> <<"a">>],
                            [key |-> <<>>, value |-> <<LBRACE>>],
                            [key |-> <<"a">>, value |-> <<"a">>]>>

\* the handler has just been invoked and has not read yet
AtInvocation ==
    /\ mode = "bare" /\ streamer.at = "handler"
    /\ valueStreamer = NewValueStreamer
    /\ calls[Len(calls)].value = <<>>

\* C19: at each invocation of the handler the bytes consumed from the source
\* end with the opening quote of a value (the third quote of a member), and
\* the bytes the handler reads through the value reader are the bytes of the
\* source that follow that quote; Stream takes at most one byte at a time.
C19_NoReadAhead ==
    /\ [](mode = "bare" =>
            /\ AtInvocation => reader.pos = calls[Len(calls)].at
            /\ \A i \in 1..Len(calls) :
                 LET at == calls[i].at
                     n == Len(calls[i].value)
                 IN  /\ at >= 1 /\ at + n <= reader.pos
                     /\ reader.src[at] = QUOTE
                     /\ Cardinality({j \in 1..at : reader.src[j] = QUOTE}) % 4 = 3
                     /\ calls[i].value = SubSeq(reader.src, at + 1, at + n))
    /\ [][reader'.pos \in {reader.pos, reader.pos + 1}]_vars

\* C19's case: the handler is invoked for the second member of an object with
\* whitespace around its tokens
C19_Witness ==
    /\ AtInvocation /\ Len(calls) = 2
    /\ reader.src = Spaced(<<Member(<<"a">>, <<"a">>), Member(<<>>, <<"a">>)>>)
    /\ reader.pos = calls[2].at
    /\ reader.src[reader.pos + 1] = "a"

\* C21: a Read of the value reader returns io.EOF only once the value's
\* closing quote has been consumed (eof is set); when the source ends before
\* the closing quote, the Read's error is not io.EOF.
C21_EOFOnlyAfterQuote ==
    valueStreamer.ret.err = "EOF" => valueStreamer.eof

\* C22: whenever no Read of the value reader is in its loop, the bytes the
\* Reads of the current value have returned, in order, are the bytes consumed
\* from the source since the value's opening quote, less the closing quote
\* or the backslash that ended the last Read.
C22_NoByteDropped ==
    (mode = "bare" /\ InHandler /\ valueStreamer.len = 0) =>
        LET c == calls[Len(calls)]
            returned == c.value \o (IF valueStreamer.ret # NoResult
                                    THEN ValueReadGot(valueStreamer) ELSE <<>>)
            ended == IF valueStreamer.eof \/ valueStreamer.ret.err = "UnsupportedEscape"
                     THEN 1 ELSE 0
        IN  returned = SubSeq(reader.src, c.at + 1, reader.pos - ended)

(***************************************************************************)
(* Properties of Stream run on two inputs (specification SpecLayout).      *)
(***************************************************************************)
\* the second Stream has returned, no Read of its source having failed
SecondRunDone ==
    /\ mode = "bare" /\ earlier # <<>>
    /\ streamer.at = "done" /\ streamer.ret # "IO"

\* C14: when Stream is run on two inputs that differ by one whitespace byte
\* (space, tab, CR or LF) inserted or deleted between tokens, with a handler
\* that drains every value, it returns the same result for both and invokes
\* the handler with the same sequence of keys and value bytes.
C14_WhitespaceTolerance ==
    SecondRunDone =>
        /\ reader.src \in WhitespaceVariants(earlier[1].src)
        /\ streamer.ret = earlier[1].ret
        /\ KeyValues(calls) = earlier[1].calls

C14_Witness ==
    /\ SecondRunDone
    /\ earlier[1].src = Compact(<<Member(<<"a">>, <<"a">>), Member(<<>>, <<"a">>)>>)
    /\ reader.src = InsertAt(earlier[1].src, 4, "\r")
    /\ streamer.ret = "nil"
    /\ KeyValues(calls) = <<[key |-> <<"a">>, value |-> <<"a">>],
                            [key |-> <<>>, value |-> <<"a">>]>>


NoReadInProgress ==
    \A g \in GoIds : goroutines[g].len = 0 /\ goroutines[g].ret = NoResult

\* the bytes the calls returned, in the order in which the calls took the mutex
ReturnedInLockOrder == Flatten([i \in 1..Len(locked) |-> locked[i].got])

\* C20: calls of Read on one limitedJSONValueStreamer by two goroutines
\* exclude each other: at most one call is in its loop of source reads at a
\* time; the bytes the calls returned, concatenated in the order in which
\* the calls took the mutex, are the bytes of the value consumed so far, each
\* once, and the whole value once the closing quote is consumed; and from
\* then on no call reads from the source.
C20_ReadsAreSerialized ==
    /\ [](mode = "goroutines" =>
            /\ Cardinality({g \in GoIds : goroutines[g].len > 0}) <= 1
            /\ NoReadInProgress =>
                 ReturnedInLockOrder =
                    SubSeq(reader.src, 1, reader.pos - (IF valueStreamer.eof THEN 1 ELSE 0))
            /\ valueStreamer.eof => reader.src[reader.pos] = QUOTE
            /\ \A j \in 1..reader.pos : reader.src[j] = QUOTE => j = reader.pos)
    /\ [][valueStreamer.eof => reader' = reader]_vars

\* C20's case: both goroutines have read bytes of the value abc, and calls
\* were made after the closing quote was consumed
C20_Witness ==
    /\ mode = "goroutines" /\ NoReadInProgress /\ valueStreamer.eof
    /\ reader.src = <<"a", "b", "c", QUOTE, RBRACE>>
    /\ \E i, j \in 1..Len(locked) :
         /\ locked[i].who = "g1" /\ locked[i].got # <<>>
         /\ locked[j].who = "g2" /\ locked[j].got # <<>>
    /\ \A g \in GoIds : goroutines[g].stopped
    /\ ReturnedInLockOrder = <<"a", "b", "c">>

(***************************************************************************)
(* Properties of the two proxies (specification SpecProxies).              *)
(***************************************************************************)
\* C23: after Close of the proxy has returned, no connection it accepted is
\* both open and tracked in openConns.
C23_NoneOpenAndTracked ==
    proxy.close = "returned" =>
        \A i \in 1..Len(proxy.conns) : ~(proxy.conns[i].open /\ i \in proxy.openConns)

\* C24: SignalFailure is called only for an error of the listener itself:
\* when the accept error serve saw is the one caused by Close closing the
\* listener, serve (of either proxy) has not called SignalFailure; and after
\* a temporary accept error the SOCKS loop is still accepting and has not
\* signalled failure.
C24_SignalOnlyOnListenerFailure ==
    mode \in {"socks", "http"} =>
        /\ proxy.err = "closed" => proxy.failures = 0
        /\ proxy.err = "temporary" => proxy.serve = "accept" /\ proxy.failures = 0

\* the second half of C24 on its own: a temporary accept error neither stops
\* the SOCKS loop nor signals failure
TemporaryErrorKeepsAccepting ==
    (mode = "socks" /\ proxy.err = "temporary") =>
        (proxy.serve = "accept" /\ proxy.failures = 0)

====
